---- MODULE Spec2Model ----
(***************************************************************************)
(* Verification model of the RAG core of SKN19-Final-1team/backend:        *)
(* router (app/rag/router), retrieval engine (app/rag/retriever*,          *)
(* app/rag/pipeline/retrieve.py) and the cached pipeline                   *)
(* (app/rag/pipeline/pipeline.py).                                         *)
(*                                                                         *)
(* The module holds several specifications over one set of variables:      *)
(*   SpecRouter   - route_query applied to bounded queries                 *)
(*   SpecRRF      - fused score of one candidate under rank changes        *)
(*   SpecRetrieve - retrieve_docs: search, vector retry, pin injection,    *)
(*                  executed twice for one query over unchanged stores     *)
(*                  with a failing embedding provider and a spent budget   *)
(*   SpecRag      - run_rag: routing, search gate, retrieval cache,        *)
(*                  escalation, post-processing, for successive requests   *)
(*   SpecFinalize    - _finalize_candidates on a drawn candidate list      *)
(*   SpecTokenMatch  - _card_token_match on drawn tokens and catalog       *)
(*   SpecTwoRequests - two run_rag coroutines sharing one cache key        *)
(*   SpecCards       - the card post-processing of run_rag                 *)
(* Each specification parks the variables of the other parts.              *)
(***************************************************************************)
EXTENDS Integers, Sequences, FiniteSets, TLC

VARIABLES
    \* ---- router ----
    rpc,        \* "idle" | "routed"
    query,      \* the query: a set of vocabulary words
    routing,    \* the RouterResult of the last route_query call
    strictSearch,   \* STRICT_SEARCH as read from the environment at import
    \* ---- fused score ----
    vecRank,    \* 1-based rank in the vector list, 0 = absent
    kwRank,     \* 1-based rank in the keyword list, 0 = absent
    boost,      \* additive boost, in thousandths
    \* ---- two concurrent run_rag requests for one cache key ----
    tasks,        \* per request: pc, cache status, retrieved documents, searches, sets
    sharedMem,    \* in-process backend both requests use
    sharedRedis,  \* networked backend both requests use
    lastWriter,   \* per backend: the request whose write came last, 0 = none
    \* ---- one call of a function on drawn arguments ----
    cpc,        \* "off" | "ready" | "done"
    callArgs,   \* the arguments of the call
    callResult, \* what the call returned
    \* ---- retrieval engine ----
    spc,          \* "off" | "ready" | "searched" | "done" | "raised"
    embedOk,      \* whether the embedding provider answers embed_query
    budgetSpent,  \* budget_ms and start_ts are given and elapsed_ms >= budget_ms
    lateOps,      \* what retrieve_docs started with the budget spent: "escalation", "pin"
    storeCalls,   \* text_search and vector_search calls of this retrieve_docs execution
    callerSources,\* routing["document_sources"] of the dict the caller passed
    metaMode,     \* which rows carry an "id" in their metadata: "none" | "own" | "source"
    laneMixed,    \* routing["lane_allow_mixed"]
    retrievalMode,\* routing["retrieval_mode"]
    fetched,      \* rows text_search returns to _fetch_rows, per table
    vecFetched,   \* rows vector_search returns, per table
    kwRows,       \* rows the store returns to _keyword_rows, per table
    ranked,       \* the list retrieve_multi handed to pin injection
    retrieved,    \* the list retrieve_docs returned
    pinnedAdded,  \* pinned_added of retrieve_docs
    runs,         \* completed executions of the search for this query
    prevIds,      \* ordered ids the previous execution returned
    \* ---- run_rag and the retrieval cache ----
    rq,           \* position of the request inside run_rag, "off" when parked
    reqNo,        \* number of the request being served
    session,      \* what session_state holds for this request
    gating,       \* the decision of decide_search_gating for the query
    ragRouting,   \* the routing dict of run_rag
    cacheKey,     \* cache_key
    cached,       \* what retrieval_cache_get returned: [hit, entries, backend],
                  \* with the filter set of the writer and whether an entry had expired
    ragDocs,      \* docs
    cacheStatus,  \* retrieve_cache_status
    memCache,     \* in-process backend: set of [key, entries, filters]
    redisCache,   \* networked backend: set of [key, entries, filters]
    redisConsulted, \* the last retrieval_cache_get asked the networked backend
    searchCalls,  \* retrieve_docs calls of this request
    flipCalls,    \* retrieve_docs calls of this request with the flipped routing
    consultCalls, \* retrieve_consult_cases calls of this request
    consult,      \* the consult-case lookup of this request and what it returned
    response,     \* what run_rag returned
    prev,         \* the previous request: session, key, retrieved and returned documents
    expired,      \* an entry expired since the last cache write or hit
    cardCache,    \* answer cache: set of [key, ids], ids = documents the answer was generated from
    cardStatus,   \* cache_status
    answerFor     \* ordered ids of the documents the returned cards were generated from

routerVars == <<rpc, query, routing, strictSearch>>
rrfVars == <<vecRank, kwRank, boost>>
callVars == <<cpc, callArgs, callResult>>
taskVars == <<tasks, sharedMem, sharedRedis, lastWriter>>
retVars == <<spc, embedOk, budgetSpent, lateOps, storeCalls, callerSources, metaMode, laneMixed, retrievalMode, fetched, vecFetched, kwRows,
             ranked, retrieved, pinnedAdded, runs, prevIds>>
ansVars == <<cardCache, cardStatus, answerFor>>
ragVars == <<rq, reqNo, session, gating, ragRouting, cacheKey, cached, ragDocs,
             cacheStatus, memCache, redisCache, redisConsulted, searchCalls, flipCalls,
             consultCalls, consult, response, prev, expired, ansVars>>
vars == <<rpc, query, routing, strictSearch, vecRank, kwRank, boost, cpc, callArgs, callResult,
          tasks, sharedMem, sharedRedis, lastWriter,
          spc, embedOk, budgetSpent, lateOps, storeCalls, callerSources, metaMode, laneMixed, retrievalMode, fetched, vecFetched, kwRows,
          ranked, retrieved, pinnedAdded, runs, prevIds,
          rq, reqNo, session, gating, ragRouting, cacheKey, cached, ragDocs,
          cacheStatus, memCache, redisCache, redisConsulted, searchCalls, flipCalls,
          consultCalls, consult, response, prev, expired, cardCache, cardStatus, answerFor>>

(***************************************************************************)
(* Bounds                                                                  *)
(***************************************************************************)
MaxWords == 3       \* words per query
MaxRank == 6        \* deepest rank of a candidate in one phase list
MaxRows == 2        \* rows one guide-store search returns
TopK == 2           \* top_k of the request (RAGConfig.top_k)

(***************************************************************************)
(* Vocabulary.  A query is a set of words; every word carries what the     *)
(* dictionaries match in it and which fixed router terms it contains.      *)
(*   narasarang_card = "나라사랑카드"   deep_dream = "딥드림"               *)
(*   loss = "분실"   reissue = "재발급"   pay_error = "결제"                 *)
(*   benefit = "혜택"   samsungpay = "삼성페이"   call_center = "고객센터"   *)
(*   kpass = "k패스"   just = "그냥"   force_phrase = a forced-rule phrase  *)
(*   vanished = "없어졌" (a strong loss term no action synonym holds)      *)
(*   kpass_card = "k패스카드" (a token the catalog matches to one card)    *)
(*   multi_child = "다자녀"   kookmin_happy = "국민행복"                     *)
(***************************************************************************)
Words == {"narasarang_card", "deep_dream", "loss", "reissue", "pay_error",
          "benefit", "samsungpay", "call_center", "kpass", "just",
          "force_phrase", "vanished", "kpass_card", "multi_child", "kookmin_happy"}

WordLen(w) ==
    CASE w = "narasarang_card" -> 6
      [] w = "deep_dream" -> 3
      [] w = "loss" -> 2
      [] w = "reissue" -> 3
      [] w = "pay_error" -> 2
      [] w = "benefit" -> 2
      [] w = "samsungpay" -> 4
      [] w = "call_center" -> 4
      [] w = "kpass" -> 3
      [] w = "just" -> 2
      [] OTHER -> 4

\* catalog names matched by a word (card-name dictionary, DB backed)
WordCards(w) ==
    CASE w = "narasarang_card" -> {"NarasarangCard"}
      [] w = "deep_dream" -> {"ShinhanDeepDreamPlatinumPlus"}
      [] w = "kpass_card" -> {"KPassShinhanCard"}
      [] OTHER -> {}

\* length of a catalog name; "신한카드 Deep Dream Platinum+" has 25 characters
CardNameLen(name) == IF name = "ShinhanDeepDreamPlatinumPlus" THEN 25 ELSE 6

WordActions(w) ==
    CASE w = "loss" -> {"loss"}
      [] w = "reissue" -> {"reissue"}
      [] w = "pay_error" -> {"pay_error"}
      [] OTHER -> {}

WordPayments(w) == IF w = "samsungpay" THEN {"samsungpay"} ELSE {}

WordWeak(w) == IF w = "benefit" THEN {"benefit"} ELSE {}

\* canonical actions whose name contains "분실" or "도난"
LossNamedActions == {"loss"}

_PHONE_LOOKUP_TERMS == {"call_center"}
_LOSS_STRONG_TERMS == {"loss", "vanished"}
_LOSS_ACTION_TERMS == {"reissue"}
\* "발급" is a substring of "재발급"
_CARDINFO_TERMS == {"benefit", "reissue"}
_KPASS_TERMS == {"kpass", "kpass_card"}

ACTION_ALLOWLIST == {"loss"}
PAYMENT_ALLOWLIST == {"samsungpay"}
WEAK_INTENT_ROUTE_HINTS(wk) == IF wk = "benefit" THEN "card_info" ELSE "card_usage"

STRICT_SEARCH == TRUE
MIN_QUERY_LEN == 2

RECURSIVE SumLen(_)
SumLen(q) ==
    IF q = {} THEN 0
    ELSE LET w == CHOOSE x \in q : TRUE IN WordLen(w) + 1 + SumLen(q \ {w})

\* length of the normalized query: words joined by single blanks
_normalize_query_len(q) == IF q = {} THEN 0 ELSE SumLen(q) - 1

_contains_any(q, terms) == (q \cap terms) # {}

\* a phone-lookup test that never fires
_is_phone_lookupNever(q) == FALSE

_is_phone_lookup(q) == _contains_any(q, _PHONE_LOOKUP_TERMS)

_is_loss_intent(q) ==
    LET strong == _contains_any(q, _LOSS_STRONG_TERMS)
        action == _contains_any(q, _LOSS_ACTION_TERMS)
        info_like == _contains_any(q, _CARDINFO_TERMS)
    IN IF strong /\ ~info_like THEN TRUE ELSE strong /\ action

_is_plausible_card_name(name) == CardNameLen(name) < 18

match_force_rule(q) == IF "force_phrase" \in q THEN "card_info" ELSE "none"

extract_signals(q) ==
    [ card_names   |-> UNION {WordCards(w) : w \in q},
      actions      |-> UNION {WordActions(w) : w \in q},
      payments     |-> UNION {WordPayments(w) : w \in q},
      weak_intents |-> UNION {WordWeak(w) : w \in q},
      normalized_len |-> _normalize_query_len(q) ]

NoFilters ==
    [ card_name |-> {}, intent |-> {}, weak_intent |-> {}, payment_method |-> {},
      region |-> {}, benefit_type |-> {}, phone_lookup |-> FALSE ]

\* a search gate that counts a card name as the only strong signal
LadderShouldSearchCardOnly(s) ==
    IF strictSearch
    THEN s.card_names # {} /\ s.normalized_len >= MIN_QUERY_LEN
    ELSE TRUE

\* router.py 304-308: the search gate of the ladder
LadderShouldSearch(s) ==
    LET strong_signal == s.card_names # {} \/ s.actions # {} \/ s.payments # {}
    IN IF strictSearch
       THEN strong_signal /\ s.normalized_len >= MIN_QUERY_LEN
       ELSE TRUE

\* a ladder whose first rule searches the guide table only and drops the intent boost
Rule1CardActionGuideOnly(s) ==
    [ ui_route |-> "card_usage", db_route |-> "guide_tbl",
      boost |-> [NoFilters EXCEPT !.card_name = s.card_names],
      should_trigger |-> TRUE, should_search |-> LadderShouldSearch(s) ]

\* rule 1, card + action
Rule1CardAction(s) ==
    [ ui_route |-> "card_usage", db_route |-> "both",
      boost |-> [NoFilters EXCEPT !.card_name = s.card_names,
                                  !.intent = s.actions,
                                  !.payment_method = s.payments,
                                  !.weak_intent = s.weak_intents],
      should_trigger |-> TRUE, should_search |-> LadderShouldSearch(s) ]

\* a card-only rule that searches both stores
Rule4CardOnlyBoth(s) ==
    [ ui_route |-> "card_info", db_route |-> "both",
      boost |-> [NoFilters EXCEPT !.card_name = s.card_names],
      should_trigger |-> TRUE, should_search |-> LadderShouldSearch(s) ]

\* rule 4, card only (router.py 342-348)
Rule4CardOnly(s) ==
    [ ui_route |-> "card_info", db_route |-> "card_tbl",
      boost |-> [NoFilters EXCEPT !.card_name = s.card_names],
      should_trigger |-> TRUE, should_search |-> LadderShouldSearch(s) ]

\* a fallback rule that answers as the card-only rule does
Rule7FallbackCardInfo(s) ==
    [ ui_route |-> "card_info", db_route |-> "card_tbl",
      boost |-> NoFilters,
      should_trigger |-> TRUE, should_search |-> LadderShouldSearch(s) ]

\* rule 7, nothing matched (router.py 368-374)
Rule7Fallback(s) ==
    [ ui_route |-> "card_usage", db_route |-> "both",
      boost |-> NoFilters,
      should_trigger |-> FALSE, should_search |-> LadderShouldSearch(s) ]

\* the rule ladder, first match wins
decide_route(s) ==
    LET should_search == LadderShouldSearch(s)
    IN  IF s.card_names # {} /\ s.actions # {} THEN Rule1CardAction(s)
        ELSE IF s.card_names # {} /\ s.payments # {} THEN
            [ ui_route |-> "card_usage", db_route |-> "card_tbl",
              boost |-> [NoFilters EXCEPT !.card_name = s.card_names,
                                          !.payment_method = s.payments],
              should_trigger |-> TRUE, should_search |-> should_search ]
        ELSE IF s.card_names # {} /\ s.weak_intents # {} THEN
            [ ui_route |-> WEAK_INTENT_ROUTE_HINTS(CHOOSE wk \in s.weak_intents : TRUE),
              db_route |-> "both",
              boost |-> [NoFilters EXCEPT !.card_name = s.card_names,
                                          !.weak_intent = s.weak_intents],
              should_trigger |-> TRUE, should_search |-> should_search ]
        ELSE IF s.card_names # {} THEN Rule4CardOnly(s)
        ELSE IF s.actions # {} THEN
            [ ui_route |-> "card_usage", db_route |-> "guide_tbl",
              boost |-> [NoFilters EXCEPT !.intent = s.actions,
                                          !.payment_method = s.payments],
              should_trigger |-> (s.actions \cap ACTION_ALLOWLIST) # {},
              should_search |-> should_search ]
        ELSE IF s.payments # {} THEN
            [ ui_route |-> "card_usage", db_route |-> "card_tbl",
              boost |-> [NoFilters EXCEPT !.payment_method = s.payments],
              should_trigger |-> (s.payments \cap PAYMENT_ALLOWLIST) # {},
              should_search |-> should_search ]
        ELSE Rule7Fallback(s)

\* lines 263-300: filters = dict(boost), then the sanitising steps
SanitizeFilters(q, boostIn) ==
    LET f1 == [boostIn EXCEPT !.card_name =
                    {n \in boostIn.card_name : _is_plausible_card_name(n)}]
        f2 == IF ~_is_loss_intent(q)
              THEN LET g == [f1 EXCEPT !.intent = f1.intent \ LossNamedActions,
                                       !.weak_intent = f1.weak_intent \ LossNamedActions]
                   IN IF _contains_any(q, _CARDINFO_TERMS)
                      THEN [g EXCEPT !.intent = {}, !.weak_intent = {}]
                      ELSE g
              ELSE f1
        f3 == IF _contains_any(q, _KPASS_TERMS)
              THEN [f2 EXCEPT !.card_name = IF f2.card_name = {} THEN {"KPass"} ELSE f2.card_name]
              ELSE f2
    IN f3

\* a forced-rule decision that names no store
ForceRuleDbRouteNone == "none"

\* router/router.py 228: the store of a forced-rule decision
ForceRuleDbRoute == "card_tbl"

route_query(q) ==
    LET signals == extract_signals(q)
        force_rule == match_force_rule(q)
        card_names == {n \in signals.card_names : _is_plausible_card_name(n)}
        actions == IF signals.actions # {} /\ ~_is_loss_intent(q)
                   THEN signals.actions \ LossNamedActions
                   ELSE signals.actions
        need_consult == actions # {} \/ signals.payments # {} \/ signals.weak_intents # {}
    IN  IF _is_phone_lookup(q) THEN
            [ route |-> "card_usage",
              filters |-> [NoFilters EXCEPT !.intent = {"phone_lookup"}, !.phone_lookup = TRUE],
              ui_route |-> "phone_lookup", db_route |-> "guide_tbl",
              matched_card_names |-> card_names, matched_actions |-> actions,
              should_search |-> TRUE, should_trigger |-> TRUE,
              need_consult_case_search |-> FALSE ]
        ELSE IF force_rule # "none" THEN
            [ route |-> force_rule, filters |-> NoFilters,
              ui_route |-> force_rule, db_route |-> ForceRuleDbRoute,
              matched_card_names |-> card_names, matched_actions |-> actions,
              should_search |-> TRUE, should_trigger |-> TRUE,
              need_consult_case_search |-> need_consult ]
        ELSE
            LET d == decide_route(signals)
                filters == SanitizeFilters(q, d.boost)
            IN [ route |-> d.ui_route, filters |-> filters,
                 ui_route |-> d.ui_route, db_route |-> d.db_route,
                 matched_card_names |-> card_names \cup filters.card_name,
                 matched_actions |-> actions,
                 should_search |-> d.should_search, should_trigger |-> d.should_trigger,
                 need_consult_case_search |->
                     (need_consult \/ d.ui_route = "card_usage") ]

NoRouting ==
    [ route |-> "none", filters |-> NoFilters, ui_route |-> "none", db_route |-> "none",
      matched_card_names |-> {}, matched_actions |-> {},
      should_search |-> FALSE, should_trigger |-> FALSE,
      need_consult_case_search |-> FALSE ]

(***************************************************************************)
(* Fusion: reciprocal rank fusion plus additive boosts                     *)
(* (retriever_rank.py).  Scores are fixed-point numbers, ScoreScale = 1.0. *)
(***************************************************************************)
RRF_K == 60
ScoreScale == 1000000000
BoostUnit == 1000000    \* one thousandth of 1.0

\* boost sums the weights can produce, in thousandths: none, card+guide penalty,
\* weak, intent, card, card+intent
BoostValues == {-60, 0, 50, 150, 200, 350}

\* a reciprocal taken with the rank subtracted from the constant
RRFTermMinus(rank) == ScoreScale \div (RRF_K - rank)

\* 1.0 / (RRF_K + rank)
RRFTerm(rank) == ScoreScale \div (RRF_K + rank)

\* _build_candidates_from_rows: the sum over the phases the key appears in
RRFScore(vrank, krank) ==
    (IF vrank > 0 THEN RRFTerm(vrank) ELSE 0) + (IF krank > 0 THEN RRFTerm(krank) ELSE 0)

\* _score_candidate: final_score = rrf_score + boost_score
FinalScore(vrank, krank, b) == RRFScore(vrank, krank) + b * BoostUnit

(***************************************************************************)
(* Document stores.  The rows below stand for rows of the two tables; the  *)
(* guide ids are the ids the pin lists of retrieve.py and policy_pins.py   *)
(* name.  RowWords(d) are the vocabulary words found in title or content.  *)
(***************************************************************************)
GuideTable == "service_guide_documents"
CardTable == "card_products"
GuideRows == {"narasarang_faq_005", "narasarang_faq_006", "loss_merged", "reissue_merged"}
CardRows == {"CARD_narasarang"}
\* a card_products row that only a pin names: no search of the queries below
\* returns it
PinOnlyCardRows == {"CARD_kookminhappy"}
Rows == GuideRows \cup CardRows
RowsOf(table) == IF table = CardTable THEN CardRows ELSE GuideRows
TableOf(d) == IF d \in CardRows \cup PinOnlyCardRows THEN CardTable ELSE GuideTable

RowTitle(d) ==
    CASE d = "narasarang_faq_005" -> "narasarang loss faq"
      [] d = "narasarang_faq_006" -> "narasarang reissue faq"
      [] d = "loss_merged" -> "loss and reissue guide"
      [] d = "reissue_merged" -> "loss and reissue guide"
      [] d = "CARD_kookminhappy" -> "KookminHappyCard"
      [] OTHER -> "NarasarangCard"

RowContentLen(d) ==
    CASE d = "narasarang_faq_005" -> 120
      [] d = "narasarang_faq_006" -> 90
      [] d = "loss_merged" -> 400
      [] d = "reissue_merged" -> 250
      [] OTHER -> 300

RowWords(d) ==
    CASE d = "narasarang_faq_005" -> {"narasarang_card", "loss"}
      [] d = "narasarang_faq_006" -> {"narasarang_card", "reissue"}
      [] d = "loss_merged" -> {"loss"}
      [] d = "reissue_merged" -> {"reissue", "loss"}
      [] d = "CARD_kookminhappy" -> {"kookmin_happy", "benefit"}
      [] OTHER -> {"narasarang_card", "benefit"}

RowTitleWords(d) ==
    CASE d = "loss_merged" -> {"loss"}
      [] d = "reissue_merged" -> {"loss"}
      [] d = "CARD_narasarang" -> {"narasarang_card"}
      [] OTHER -> {}

\* metadata "card_name" of a row
RowCardNames(d) == IF d = "CARD_narasarang" THEN {"NarasarangCard"} ELSE {}

\* metadata "category" of a row, as category tokens
RowCategory(d) == IF d = "CARD_narasarang" THEN {"benefit"} ELSE {}

\* metadata "id" of a row ("" = the metadata has no id).  In mode "source" the
\* two FAQ rows carry the id of the source document they were cut from.
RowMetaId(mode, d) ==
    IF mode = "source" /\ d \in {"narasarang_faq_005", "narasarang_faq_006"}
    THEN "narasarang_faq"
    ELSE ""

MIN_GUIDE_CONTENT_LEN == 60
_is_noisy_guide_doc(d) == RowTitle(d) = "" \/ RowContentLen(d) < MIN_GUIDE_CONTENT_LEN

\* words whose text contains a card value (catalog name or entity name)
CardValueWords(v) ==
    CASE v = "NarasarangCard" -> {"narasarang_card"}
      [] v = "Narasarang" -> {"narasarang_card"}
      [] v = "KPass" -> {"kpass"}
      [] OTHER -> {"deep_dream"}

(***************************************************************************)
(* Sequence helpers                                                        *)
(***************************************************************************)
Range(s) == {s[i] : i \in 1..Len(s)}
Take(s, n) == SubSeq(s, 1, IF n < Len(s) THEN n ELSE Len(s))
PermSeqs(S) == {s \in [1..Cardinality(S) -> S] : \A i, j \in 1..Cardinality(S) : i # j => s[i] # s[j]}
SeqsUpTo(S, n) == UNION {PermSeqs(T) : T \in {U \in SUBSET S : Cardinality(U) <= n}}
FirstIndex(s, x) == IF x \in Range(s) THEN CHOOSE i \in 1..Len(s) : s[i] = x /\ \A j \in 1..(i-1) : s[j] # x ELSE 0
MaxOf(S) == CHOOSE x \in S : \A y \in S : y <= x

(***************************************************************************)
(* retrieve_docs, first half: sources and the routing handed to            *)
(* retrieve_multi (pipeline/retrieve.py 161-361).  The branches on         *)
(* financial, DCC, Apple Pay and telecom terms need words outside the      *)
(* vocabulary and are not reached.                                         *)
(***************************************************************************)
loss_terms == {"loss"}

\* special_entities, first match in dictionary order: 국민행복, K-패스, 나라사랑
matched_entity(q) ==
    IF "kookmin_happy" \in q THEN "KookminHappy"
    ELSE IF "kpass" \in q THEN "KPass"
    ELSE IF "narasarang_card" \in q THEN "Narasarang"
    ELSE ""

HasLossTerm(q) == (q \cap loss_terms) # {}

\* lines 214-311 and 360-361
retrieve_sources(q, r) ==
    LET f == r.filters
        both == {CardTable, GuideTable}
        s0 == CASE r.db_route = "card_tbl" -> {CardTable}
                [] r.db_route = "guide_tbl" -> {GuideTable}
                [] r.db_route = "both" -> both
                [] OTHER -> IF r.route = "card_usage" /\ f.card_name = {} THEN {GuideTable}
                            ELSE IF r.route = "card_info" THEN {CardTable}
                            ELSE IF f.card_name # {} THEN both ELSE {}
        s1 == IF f.intent # {} \/ f.weak_intent # {} THEN s0 \cup {GuideTable} ELSE s0
        s2 == IF r.route = "card_usage" /\ HasLossTerm(q) THEN {GuideTable} ELSE s1
        s3 == IF r.route = "card_info" /\ f.card_name # {} THEN both ELSE s2
        s4 == IF r.route = "card_info" /\ matched_entity(q) # "" THEN s3 \cup both ELSE s3
        s5 == IF r.route = "card_info" /\ ~f.phone_lookup
              THEN s4 \cup {CardTable} \cup
                   (IF matched_entity(q) # "" \/ f.card_name # {} \/ f.intent # {} \/ f.weak_intent # {}
                    THEN {GuideTable} ELSE {})
              ELSE s4
        s6 == IF f.phone_lookup THEN {GuideTable} ELSE s5
    IN IF s6 = {} THEN both ELSE s6

\* document_sources of the RouterResult: the phone-lookup decision names two
\* scopes, the forced-rule decision none (router/router.py 215, 241)
router_document_sources(q) ==
    IF _is_phone_lookup(q) THEN <<"guide_merged", "guide_general">> ELSE <<>>

\* routing_for_retrieve["document_sources"] as retrieve_multi receives it
\* (retrieve.py 232-237, 261-265, 302-306)
retrieve_document_sources(q, r) ==
    LET d0 == router_document_sources(q)
        d1 == IF r.route = "card_usage" /\ HasLossTerm(q)
              THEN <<"guide_merged", "guide_general">> ELSE d0
        d2 == IF r.route = "card_info" /\ matched_entity(q) # ""
              THEN <<"guide_merged", "guide_general">> ELSE d1
    IN IF r.filters.phone_lookup THEN <<"guide_with_terms">> ELSE d2

\* retrieve.py 326-344: the list read from the routing of the caller, after
\* the scope filter is chosen; remove and append act on that list object
scoped_document_sources(document_sources, sources) ==
    IF /\ Len(document_sources) > 0
       /\ GuideTable \in sources
       /\ "guide_with_terms" \notin Range(document_sources)
       /\ {"guide_merged", "guide_general"} \subseteq Range(document_sources)
    THEN SelectSeq(document_sources, LAMBDA x : x \notin {"guide_merged", "guide_general"})
            \o (IF "guide_all" \in Range(document_sources) THEN <<>> ELSE <<"guide_all">>)
    ELSE document_sources

\* retriever.py 328-337: the scope of the one guide-store query
guide_source_label(document_sources) ==
    IF Len(document_sources) >= 2 /\ {"guide_merged", "guide_general"} \subseteq Range(document_sources)
    THEN "guide_all"
    ELSE IF Len(document_sources) > 0 THEN document_sources[1] ELSE "guide_default"

\* filters of routing_for_retrieve: a card_info query with a special entity
\* searches with card_name = [matched_entity]
retrieve_filters(q, r) ==
    IF r.route = "card_info" /\ matched_entity(q) # ""
    THEN [r.filters EXCEPT !.card_name = {matched_entity(q)}]
    ELSE r.filters

(***************************************************************************)
(* Search context (retriever_terms.py 148-185)                             *)
(***************************************************************************)
\* words holding one of CATEGORY_MATCH_TOKENS: "재발급" holds "발급", "혜택"
CategoryWords == {"reissue", "benefit"}
ISSUE_TERMS == {"reissue"}
BENEFIT_TERMS == {"benefit"}
_BOOST_GUIDE_TOKENS == {"benefit"}

_select_search_mode(terms) ==
    IF (terms \cap ISSUE_TERMS) # {} THEN "ISSUE"
    ELSE IF (terms \cap BENEFIT_TERMS) # {} THEN "BENEFIT"
    ELSE "GENERAL"

\* allow_guide_without_card_match: the live pipeline never sets the routing flag
_build_search_context(q, f) ==
    LET all == q \cup f.weak_intent \cup f.intent
    IN [ card_values |-> f.card_name,
         intent_terms |-> f.intent,
         weak_terms |-> f.weak_intent,
         payment_terms |-> f.payment_method,
         query_terms |-> q,
         category_terms |-> all \cap CategoryWords,
         search_mode |-> _select_search_mode(all),
         payment_only |-> f.payment_method # {} /\ f.card_name = {} /\ f.intent = {},
         extra_terms |-> q \ f.payment_method,
         allow_guide_without_card_match |-> FALSE ]

_guide_tokens(ctx) ==
    (ctx.weak_terms \cup ctx.category_terms \cup ctx.intent_terms \cup ctx.query_terms)
        \cap _BOOST_GUIDE_TOKENS

(***************************************************************************)
(* Candidates and their scores (retriever_rank.py 223-368).  Boost weights *)
(* are in thousandths.                                                     *)
(***************************************************************************)
_BOOST_CARD == 200
_BOOST_INTENT == 150
_BOOST_PAYMENT == 100
_BOOST_WEAK == 50
_BOOST_CATEGORY == 50
_BOOST_GUIDE == 4
_BOOST_GUIDE_COVERAGE == 10
_BOOST_INTENT_TITLE == 20
_PENALTY_CARD_GUIDE == 60

_is_guide_table(table) == table = GuideTable

card_match_base(d, ctx) ==
    \/ (RowCardNames(d) \cap ctx.card_values) # {}
    \/ \E v \in ctx.card_values : (CardValueWords(v) \cap RowWords(d)) # {}

\* boost_score of _score_candidate
BoostScore(d, ctx) ==
    LET base == card_match_base(d, ctx)
        has_card == ctx.card_values # {}
        guide_tokens == _guide_tokens(ctx)
        is_guide_doc == _is_guide_table(TableOf(d))
        match_count == Cardinality(ctx.query_terms \cap RowWords(d))
    IN IF has_card /\ ~base THEN 0
       ELSE (IF has_card /\ base
             THEN (IF guide_tokens # {} /\ ~is_guide_doc THEN 0 ELSE _BOOST_CARD) ELSE 0)
          + (IF (ctx.intent_terms \cap RowWords(d)) # {} THEN _BOOST_INTENT ELSE 0)
          + (IF is_guide_doc /\ (ctx.intent_terms \cap RowTitleWords(d)) # {}
             THEN _BOOST_INTENT_TITLE ELSE 0)
          + (IF (ctx.payment_terms \cap RowWords(d)) # {} THEN _BOOST_PAYMENT ELSE 0)
          + (IF (ctx.weak_terms \cap RowWords(d)) # {} THEN _BOOST_WEAK ELSE 0)
          + (IF (ctx.category_terms \cap RowCategory(d)) # {} THEN _BOOST_CATEGORY ELSE 0)
          + (IF is_guide_doc /\ has_card /\ base /\ (guide_tokens \cap RowWords(d)) # {}
             THEN _BOOST_GUIDE + (IF match_count >= 2 THEN _BOOST_GUIDE_COVERAGE * match_count ELSE 0)
             ELSE 0)
          - (IF guide_tokens # {} /\ ~is_guide_doc /\ has_card /\ base
             THEN _PENALTY_CARD_GUIDE ELSE 0)

\* _rows_to_docs 238: output_id = normalized_meta.get("id") or doc_id
OutputId(mode, d) == IF RowMetaId(mode, d) # "" THEN RowMetaId(mode, d) ELSE d

\* keys of the dict _rows_to_docs builds: rows in order, noisy guide rows skipped
_rows_to_docs(rows, table) ==
    {d \in Range(rows) : ~(_is_guide_table(table) /\ _is_noisy_guide_doc(d))}

\* one scored candidate; its rank in a list is the 1-based row position
_score_candidate(d, ctx, mode, vec_rows, kw_rows) ==
    [ table |-> TableOf(d), db_id |-> d, id |-> OutputId(mode, d),
      title |-> RowTitle(d), clen |-> RowContentLen(d),
      score |-> FinalScore(FirstIndex(vec_rows, d), FirstIndex(kw_rows, d), BoostScore(d, ctx)),
      card_match |-> IF ctx.card_values # {} THEN card_match_base(d, ctx) ELSE TRUE,
      pinned |-> FALSE, pin_rank |-> -1 ]

\* the candidates of one table in the iteration order ord of the key set
_build_candidates_from_rows(vec_rows, kw_rows, table, ctx, mode, ord) ==
    LET keys == _rows_to_docs(vec_rows, table) \cup _rows_to_docs(kw_rows, table)
        order == SelectSeq(ord, LAMBDA d : d \in keys)
    IN [i \in 1..Len(order) |-> _score_candidate(order[i], ctx, mode, vec_rows, kw_rows)]

\* _keyword_rows: the extra-term keyword search of one table
_keyword_rows(table, ctx) ==
    IF _is_guide_table(table) /\ ctx.search_mode \notin {"ISSUE", "BENEFIT"} THEN <<>>
    ELSE IF ~_is_guide_table(table)
            /\ ~(ctx.payment_only \/ ctx.search_mode \in {"ISSUE", "BENEFIT"}) THEN <<>>
    ELSE IF ctx.extra_terms \cup ctx.category_terms = {} THEN <<>>
    ELSE kwRows[table]

\* _fetch_rows of retrieve_multi (USE_KEYWORD on, priority terms off)
_fetch_rows(table, ctx, use_vector) ==
    IF ~_is_guide_table(table) /\ ctx.category_terms # {} THEN
        LET r1 == IF use_vector THEN vecFetched[table] ELSE <<>>
        IN IF Len(r1) > 0 THEN r1 ELSE fetched[table]
    ELSE IF ~_is_guide_table(table) THEN
        (IF use_vector THEN vecFetched[table] ELSE <<>>)
    ELSE IF (ctx.intent_terms # {} \/ ctx.weak_terms # {}) /\ ctx.card_values = {} THEN
        fetched[table]
    ELSE IF Len(fetched[table]) > 0 THEN fetched[table]
    ELSE IF use_vector THEN vecFetched[table] ELSE <<>>

\* whether _fetch_rows reaches embed_query: vector_search embeds the query for
\* every table but card_products (retriever_db.py 264-269), and the guide
\* branches call it only after an empty keyword search (retriever.py 278-281,
\* 302-305)
EmbedsQuery(table, ctx, use_vector) ==
    /\ _is_guide_table(table)
    /\ use_vector
    /\ ~((ctx.intent_terms # {} \/ ctx.weak_terms # {}) /\ ctx.card_values = {})
    /\ Len(fetched[table]) = 0

\* embed_query raises and nothing between it and retrieve_docs catches
SearchRaises(q, f, retrieval_mode, tables) ==
    /\ ~embedOk
    /\ \E table \in tables :
          EmbedsQuery(table, _build_search_context(q, f), retrieval_mode # "keyword_only")

\* MAX_DB_CALLS caps the _fetch_rows calls of one retrieve_multi call
\* (retriever.py 220-235): with at most two tables it is never reached
MAX_DB_CALLS == 2

\* text_search and vector_search calls one _fetch_rows call issues
\* (retriever.py 255-322; USE_KEYWORD on, priority terms off)
FetchStoreCalls(table, ctx, use_vector, route_name) ==
    LET v == IF use_vector THEN 1 ELSE 0
    IN IF ~_is_guide_table(table) /\ ctx.category_terms # {} THEN
           LET r1 == IF use_vector THEN vecFetched[table] ELSE <<>>
           IN v + (IF Len(r1) = 0 THEN 1 ELSE 0)
                + (IF Len(r1) = 0 /\ Len(fetched[table]) = 0 THEN v ELSE 0)
       ELSE IF ~_is_guide_table(table) THEN
           v + (IF ctx.card_values # {} /\ ctx.intent_terms = {} /\ ctx.payment_terms = {}
                   /\ route_name # "card_info"
                THEN v ELSE 0)
       ELSE IF (ctx.intent_terms # {} \/ ctx.weak_terms # {}) /\ ctx.card_values = {} THEN 1
       ELSE 1 + (IF Len(fetched[table]) = 0 THEN v ELSE 0)

\* the text_search call of _keyword_rows (retriever_rank.py 321-343)
KeywordStoreCalls(table, ctx) ==
    IF _is_guide_table(table) /\ ctx.search_mode \notin {"ISSUE", "BENEFIT"} THEN 0
    ELSE IF ~_is_guide_table(table)
            /\ ~(ctx.payment_only \/ ctx.search_mode \in {"ISSUE", "BENEFIT"}) THEN 0
    ELSE IF ctx.extra_terms \cup ctx.category_terms = {} THEN 0
    ELSE 1

\* store queries of one retrieve_multi call over its tables
MultiStoreCalls(q, route_name, f, retrieval_mode, tables) ==
    LET ctx == _build_search_context(q, f)
        use_vector == retrieval_mode # "keyword_only"
        n(table) == IF table \in tables
                    THEN FetchStoreCalls(table, ctx, use_vector, route_name)
                         + KeywordStoreCalls(table, ctx)
                    ELSE 0
    IN n(CardTable) + n(GuideTable)

(***************************************************************************)
(* _finalize_candidates (retriever_rank.py 385-413) and the lanes of       *)
(* retrieve_multi (retriever/retriever.py 370-411)                         *)
(***************************************************************************)
RECURSIVE InsertDesc(_, _)
InsertDesc(s, x) ==
    IF Len(s) = 0 THEN <<x>>
    ELSE IF Head(s).score >= x.score THEN <<Head(s)>> \o InsertDesc(Tail(s), x)
    ELSE <<x>> \o s

\* list.sort(key=score, reverse=True): stable, equal scores keep their order
RECURSIVE SortByScoreDesc(_)
SortByScoreDesc(s) ==
    IF Len(s) = 0 THEN <<>>
    ELSE InsertDesc(SortByScoreDesc(SubSeq(s, 1, Len(s) - 1)), s[Len(s)])

_doc_key(doc) == doc.title

\* rank_key > existing rank_key, on (content_len, final_score)
RankKeyGreater(a, b) == a.clen > b.clen \/ (a.clen = b.clen /\ a.score > b.score)

\* best_by_title: a dict keeps the position of the first insertion of a key
RECURSIVE BestByTitle(_, _)
BestByTitle(best, cands) ==
    IF Len(cands) = 0 THEN best
    ELSE LET doc == Head(cands)
             hit == {i \in 1..Len(best) : _doc_key(best[i]) = _doc_key(doc)}
         IN IF hit = {} THEN BestByTitle(Append(best, doc), Tail(cands))
            ELSE LET i == CHOOSE x \in hit : TRUE
                 IN IF RankKeyGreater(doc, best[i])
                    THEN BestByTitle([best EXCEPT ![i] = doc], Tail(cands))
                    ELSE BestByTitle(best, Tail(cands))

\* sort and dedup without the card-match filter
_finalize_candidatesNoFilter(candidates, ctx) ==
    SortByScoreDesc(BestByTitle(<<>>, SortByScoreDesc(candidates)))

_finalize_candidates(candidates, ctx) ==
    LET sorted == SortByScoreDesc(candidates)
        has_card_match == \E i \in 1..Len(sorted) : sorted[i].card_match
        kept == IF ~has_card_match THEN sorted
                ELSE IF ctx.allow_guide_without_card_match
                THEN SelectSeq(sorted, LAMBDA c : c.card_match \/ _is_guide_table(c.table))
                ELSE SelectSeq(sorted, LAMBDA c : c.card_match)
    IN SortByScoreDesc(BestByTitle(<<>>, kept))

\* retrieve_multi; ord is the iteration order of the candidate key set
retrieve_multi(q, route_name, f, retrieval_mode, lane_allow_mixed, tables, top_k, ord) ==
    LET ctx == _build_search_context(q, f)
        use_vector == retrieval_mode # "keyword_only"
        cands(table) ==
            IF table \in tables
            THEN _build_candidates_from_rows(_fetch_rows(table, ctx, use_vector),
                                             _keyword_rows(table, ctx), table, ctx, metaMode, ord)
            ELSE <<>>
        card_docs == cands(CardTable)
        guide_docs == cands(GuideTable)
        candidates == card_docs \o guide_docs
        NotIn(seq) == SelectSeq(candidates, LAMBDA c : c \notin Range(seq))
        docs ==
            IF route_name = "card_info" THEN
                IF ~lane_allow_mixed THEN _finalize_candidates(Take(card_docs, top_k), ctx)
                ELSE LET o1 == Take(card_docs, IF top_k - 1 > 1 THEN top_k - 1 ELSE 1)
                         o2 == IF Len(guide_docs) > 0 /\ Len(o1) < top_k
                               THEN o1 \o Take(guide_docs, 1) ELSE o1
                         o3 == IF Len(o2) < top_k
                               THEN o2 \o Take(NotIn(o2), top_k - Len(o2)) ELSE o2
                     IN _finalize_candidates(o3, ctx)
            ELSE
                IF ~lane_allow_mixed THEN _finalize_candidates(Take(guide_docs, top_k), ctx)
                ELSE LET d1 == Take(card_docs, 1) \o Take(guide_docs, 1)
                         d2 == d1 \o Take(NotIn(d1), IF top_k > Len(d1) THEN top_k - Len(d1) ELSE 0)
                     IN _finalize_candidates(d2, ctx)
    IN Take(docs, top_k)

(***************************************************************************)
(* Pin injection (pipeline/retrieve.py 82-99 and 387-470)                  *)
(***************************************************************************)
_CARD_INFO_T_HIGH == 350
VECTOR_RETRY_BELOW == 100       \* card_usage retries in vector mode below 0.1

_pin_allowed(docs, force) ==
    IF force THEN TRUE
    ELSE IF budgetSpent THEN FALSE
    ELSE IF Len(docs) = 0 THEN FALSE
    ELSE docs[1].score >= _CARD_INFO_T_HIGH * BoostUnit

\* a critical-pin test that forgets the loss/theft terms
critical_pinNoLoss(q, route_name, phone_lookup) ==
    IF route_name = "card_usage"
    THEN \/ "narasarang_card" \in q
         \/ matched_entity(q) \in {"KookminHappy", "Narasarang", "KPass"}
         \/ phone_lookup
         \/ "call_center" \in q
    ELSE route_name = "card_info" /\ matched_entity(q) # ""

\* lines 387-402
critical_pin(q, route_name, phone_lookup) ==
    IF route_name = "card_usage"
    THEN \/ HasLossTerm(q)
         \/ "narasarang_card" \in q
         \/ matched_entity(q) \in {"KookminHappy", "Narasarang", "KPass"}
         \/ phone_lookup
         \/ "call_center" \in q
    ELSE route_name = "card_info" /\ matched_entity(q) # ""

\* lines 404-406
pin_max(q, route_name, phone_lookup) ==
    LET base == IF critical_pin(q, route_name, phone_lookup) THEN 2 ELSE 1
    IN IF route_name = "card_info" /\ matched_entity(q) = "KPass" /\ base < 3 THEN 3 ELSE base

\* the cap test left out
PinCapReachedNever(added, cap) == FALSE

\* pinned_added >= pin_max
PinCapReached(added, cap) == added >= cap

\* fetch_docs_by_ids: the rows of the table whose id is asked for
fetch_docs_by_ids(table, ids) ==
    {d \in RowsOf(table) \cup (IF table = CardTable THEN PinOnlyCardRows ELSE {}) :
        d \in Range(ids)}

\* a fetched document: "id" is str(doc_id), there is no score
PinnedDoc(d, rank) ==
    [ table |-> TableOf(d), db_id |-> d, id |-> d,
      title |-> RowTitle(d), clen |-> RowContentLen(d),
      score |-> 0, card_match |-> FALSE, pinned |-> FALSE, pin_rank |-> rank ]

\* _mark_pin_rank: rank = 0-based position in pin_ids, sorted by rank
_mark_pin_rank(pinned_docs, pin_ids) ==
    LET present == SelectSeq(pin_ids, LAMBDA pid : pid \in pinned_docs)
    IN [i \in 1..Len(present) |-> PinnedDoc(present[i], FirstIndex(pin_ids, present[i]) - 1)]

\* the loop of _append_pins over pinned_docs; st = [docs, added]
RECURSIVE AppendLoop(_, _, _)
AppendLoop(st, pins, cap) ==
    IF Len(pins) = 0 THEN st
    ELSE LET doc == Head(pins)
             hit == {i \in 1..Len(st.docs) : st.docs[i].id = doc.id}
         IN IF hit # {} THEN
                LET i == MaxOf(hit)
                IN AppendLoop([st EXCEPT !.docs[i] = [@ EXCEPT !.pinned = TRUE,
                                                               !.pin_rank = doc.pin_rank]],
                              Tail(pins), cap)
            ELSE IF ~PinCapReached(st.added, cap) THEN
                LET st2 == [docs |-> Append(st.docs, [doc EXCEPT !.pinned = TRUE]),
                            added |-> st.added + 1]
                IN IF PinCapReached(st2.added, cap) THEN st2
                   ELSE AppendLoop(st2, Tail(pins), cap)
            ELSE AppendLoop(st, Tail(pins), cap)

_append_pins(st, pinned_docs, cap) ==
    IF PinCapReached(st.added, cap) \/ Len(pinned_docs) = 0 THEN st
    ELSE AppendLoop(st, pinned_docs, cap)

\* lines 456-460: the loss/theft pin list
LossPinIds(q) ==
    IF "narasarang_card" \in q
    THEN <<"narasarang_faq_005", "narasarang_faq_006", "loss_merged", "reissue_merged">>
    ELSE <<"loss_merged", "reissue_merged">>

\* POLICY_PINS entries whose tokens are in the vocabulary
POLICY_PINS ==
    << [ name |-> "narasarang_loss", table |-> GuideTable,
         doc_ids |-> <<"narasarang_faq_005", "narasarang_faq_006", "narasarang_faq_010">>,
         tokens |-> {"narasarang_card"}, exclude_card_names |-> {} ],
       [ name |-> "kookminhappy_guide", table |-> GuideTable,
         doc_ids |-> <<"kookminhappy_28">>,
         tokens |-> {"kookmin_happy"}, exclude_card_names |-> {} ],
       [ name |-> "kookminhappy_card", table |-> CardTable,
         doc_ids |-> <<"CARD_kookminhappy">>,
         tokens |-> {"kookmin_happy"}, exclude_card_names |-> {} ],
       [ name |-> "loss_general", table |-> GuideTable,
         doc_ids |-> <<"loss_merged">>,
         tokens |-> {"loss"}, exclude_card_names |-> {"narasarang_card"} ] >>

\* the pin requests of the policy table, in table order
build_pin_requests(route_name, q, entity, allowed) ==
    IF ~allowed THEN <<>>
    ELSE SelectSeq(POLICY_PINS,
                   LAMBDA p : (p.tokens \cap q) # {} /\ (p.exclude_card_names \cap q) = {})

\* all pin requests of one query, in the order retrieve_docs evaluates them
PinRequests(q, route_name, allowed) ==
    (IF allowed /\ route_name = "card_usage" /\ HasLossTerm(q)
     THEN << [table |-> GuideTable, doc_ids |-> LossPinIds(q)] >> ELSE <<>>)
    \o [i \in 1..Len(build_pin_requests(route_name, q, matched_entity(q), allowed)) |->
          [table |-> build_pin_requests(route_name, q, matched_entity(q), allowed)[i].table,
           doc_ids |-> build_pin_requests(route_name, q, matched_entity(q), allowed)[i].doc_ids]]

RECURSIVE InjectPins(_, _, _)
InjectPins(st, requests, cap) ==
    IF Len(requests) = 0 THEN st
    ELSE LET req == Head(requests)
             pinned == fetch_docs_by_ids(req.table, req.doc_ids)
         IN InjectPins(_append_pins(st, _mark_pin_rank(pinned, req.doc_ids), cap),
                       Tail(requests), cap)

(***************************************************************************)
(* retrieve_docs (pipeline/retrieve.py 161-477)                            *)
(***************************************************************************)
\* lines 387-470: pin injection on the searched list
retrieve_docs(q, r, docs) ==
    LET cap == pin_max(q, r.route, r.filters.phone_lookup)
        allowed == _pin_allowed(docs, critical_pin(q, r.route, r.filters.phone_lookup))
    IN InjectPins([docs |-> docs, added |-> 0], PinRequests(q, r.route, allowed), cap)

Queries == {q \in SUBSET Words : Cardinality(q) <= MaxWords}

RouterInit ==
    /\ strictSearch = STRICT_SEARCH
    /\ rpc = "idle" /\ query = {} /\ routing = NoRouting
RRFInit == vecRank = 0 /\ kwRank = 0 /\ boost = 0
CallInit == cpc = "off" /\ callArgs = <<>> /\ callResult = <<>>
TaskInit == tasks = <<>> /\ sharedMem = {} /\ sharedRedis = {} /\ lastWriter = <<>>
RetInit ==
    /\ spc = "off" /\ embedOk = TRUE /\ budgetSpent = FALSE /\ lateOps = {}
    /\ storeCalls = 0 /\ callerSources = <<>>
    /\ metaMode = "none" /\ laneMixed = FALSE
    /\ retrievalMode = "keyword_only"
    /\ fetched = <<>> /\ vecFetched = <<>> /\ kwRows = <<>>
    /\ ranked = <<>> /\ retrieved = <<>> /\ pinnedAdded = 0
    /\ runs = 0 /\ prevIds = <<>>
NoGating == [no_search |-> FALSE, domain_score |-> 0, retrieval_mode |-> "keyword_only"]
NoCached == [hit |-> FALSE, entries |-> <<>>, backend |-> "", filters |-> NoFilters,
             stale |-> FALSE]
NoResponse == [kind |-> "none", route |-> "none", ids |-> <<>>]
\* no consult-case lookup attempted in this request
NoConsult == [attempted |-> FALSE, threw |-> FALSE, raised |-> FALSE, docs |-> <<>>]

\* what retrieve_consult_docs does when called: it throws, or returns cases
ConsultLookups ==
    [throws : {TRUE}, rows : {<<>>}] \cup [throws : {FALSE}, rows : {<<>>, <<"consult_case_1">>}]

\* the lookup without its try/except
retrieve_consult_casesUncaught(r, lookup) ==
    IF ~r.need_consult_case_search THEN [raised |-> FALSE, docs |-> <<>>]
    ELSE IF lookup.throws THEN [raised |-> TRUE, docs |-> <<>>]
    ELSE [raised |-> FALSE, docs |-> lookup.rows]

\* pipeline/retrieve.py 480-502
retrieve_consult_cases(r, lookup) ==
    IF ~r.need_consult_case_search THEN [raised |-> FALSE, docs |-> <<>>]
    ELSE IF lookup.throws THEN [raised |-> FALSE, docs |-> <<>>]
    ELSE [raised |-> FALSE, docs |-> lookup.rows]

NoPrev == [session |-> NoFilters, retrieved |-> 0, ids |-> <<>>, kind |-> "none",
           key |-> <<>>, entries |-> <<>>, wrote |-> FALSE]
RagInit ==
    /\ rq = "off" /\ reqNo = 0 /\ session = NoFilters /\ gating = NoGating
    /\ ragRouting = NoRouting /\ cacheKey = <<>> /\ cached = NoCached
    /\ ragDocs = <<>> /\ cacheStatus = "off"
    /\ memCache = {} /\ redisCache = {} /\ redisConsulted = FALSE
    /\ searchCalls = 0 /\ flipCalls = 0 /\ consultCalls = 0 /\ consult = NoConsult
    /\ response = NoResponse /\ prev = NoPrev /\ expired = FALSE
    /\ cardCache = {} /\ cardStatus = "off" /\ answerFor = <<>>

(***************************************************************************)
(* SpecRouter                                                              *)
(***************************************************************************)
RouteQuery ==
    /\ rpc = "idle"
    /\ \E q \in Queries :
        /\ query' = q
        /\ routing' = route_query(q)
    /\ rpc' = "routed"
    /\ UNCHANGED <<strictSearch, rrfVars, callVars, taskVars, retVars, ragVars>>

RouterReset ==
    /\ rpc = "routed"
    /\ rpc' = "idle" /\ query' = {} /\ routing' = NoRouting
    /\ UNCHANGED <<strictSearch, rrfVars, callVars, taskVars, retVars, ragVars>>

InitRouter ==
    /\ strictSearch \in BOOLEAN
    /\ rpc = "idle" /\ query = {} /\ routing = NoRouting
    /\ RRFInit /\ CallInit /\ TaskInit /\ RetInit /\ RagInit
NextRouter == RouteQuery \/ RouterReset
SpecRouter == InitRouter /\ [][NextRouter]_vars

(***************************************************************************)
(* SpecRRF: one candidate whose position in the phase lists changes        *)
(***************************************************************************)
InitRRF ==
    /\ RouterInit /\ CallInit /\ TaskInit /\ RetInit /\ RagInit
    /\ vecRank \in 0..MaxRank
    /\ kwRank \in 0..MaxRank
    /\ vecRank + kwRank > 0
    /\ boost \in BoostValues

ImproveVecRank ==
    /\ \E r \in 1..MaxRank : r < vecRank /\ vecRank' = r
    /\ UNCHANGED <<kwRank, boost>>
    /\ UNCHANGED <<routerVars, callVars, taskVars, retVars, ragVars>>

ImproveKwRank ==
    /\ \E r \in 1..MaxRank : r < kwRank /\ kwRank' = r
    /\ UNCHANGED <<vecRank, boost>>
    /\ UNCHANGED <<routerVars, callVars, taskVars, retVars, ragVars>>

\* the boost inputs of the candidate change (another query context)
ChangeBoost ==
    /\ \E b \in BoostValues : b # boost /\ boost' = b
    /\ UNCHANGED <<vecRank, kwRank>>
    /\ UNCHANGED <<routerVars, callVars, taskVars, retVars, ragVars>>

NextRRF == ImproveVecRank \/ ImproveKwRank \/ ChangeBoost
SpecRRF == InitRRF /\ [][NextRRF]_vars

(***************************************************************************)
(* C1 - card name + action                                                 *)

(***************************************************************************)
(* SpecRetrieve                                                            *)
(***************************************************************************)
RetrievalQueries ==
    { {"narasarang_card", "loss"}, {"loss"}, {"narasarang_card", "benefit"},
      {"narasarang_card", "reissue"}, {"kpass", "narasarang_card"}, {"reissue"},
      {"force_phrase", "loss"}, {"call_center", "narasarang_card"},
      {"kookmin_happy", "loss"} }

RetrievalModes == {"keyword_only", "hybrid"}

\* the ids of a result list, in order
DocIds(docs) == [i \in 1..Len(docs) |-> docs[i].id]

\* iteration orders of the candidate key sets: a Python set of str keys has no
\* order fixed by the program
Orders ==
    LET used == Range(fetched[GuideTable]) \cup Range(vecFetched[GuideTable])
                    \cup Range(kwRows[GuideTable])
    IN {c \o g : c \in PermSeqs(CardRows), g \in PermSeqs(used)}

NeedsVectorRetry ==
    /\ routing.route = "card_usage"
    /\ retrievalMode # "vector"
    /\ ~routing.filters.phone_lookup
    /\ IF Len(ranked) = 0 THEN TRUE ELSE ranked[1].score < VECTOR_RETRY_BELOW * BoostUnit

InitRetrieve ==
    /\ RRFInit /\ CallInit /\ TaskInit /\ RagInit
    /\ strictSearch = STRICT_SEARCH
    /\ rpc = "routed"
    /\ query \in RetrievalQueries
    /\ routing = route_query(query)
    /\ spc = "ready" /\ runs = 0 /\ prevIds = <<>>
    /\ budgetSpent = FALSE /\ lateOps = {} /\ storeCalls = 0
    /\ callerSources = router_document_sources(query)
    /\ ranked = <<>> /\ retrieved = <<>> /\ pinnedAdded = 0
    /\ metaMode \in {"none", "source"}
    /\ laneMixed \in BOOLEAN
    /\ retrievalMode \in RetrievalModes
    /\ LET tables == retrieve_sources(query, routing)
           ctx == _build_search_context(query, retrieve_filters(query, routing))
           guide == GuideTable \in tables
           card == CardTable \in tables
           kw_on == ctx.search_mode \in {"ISSUE", "BENEFIT"}
       IN /\ \E g \in (IF guide THEN SeqsUpTo(GuideRows, MaxRows) ELSE {<<>>}),
                c \in (IF card THEN SeqsUpTo(CardRows, 1) ELSE {<<>>}) :
                /\ fetched = (CardTable :> c) @@ (GuideTable :> g)
                \* the provider is asked only after an empty guide keyword search
                /\ embedOk \in (IF guide /\ Len(g) = 0 THEN BOOLEAN ELSE {TRUE})
                \* vector_search on card_products is text_search on the query terms
                /\ \E v \in (IF guide /\ Len(g) = 0 THEN SeqsUpTo(GuideRows, 1) ELSE {<<>>}) :
                      vecFetched = (CardTable :> c) @@ (GuideTable :> v)
          /\ \E g \in (IF guide /\ kw_on THEN SeqsUpTo(GuideRows, 1) ELSE {<<>>}),
                c \in (IF card /\ (kw_on \/ ctx.payment_only)
                       THEN SeqsUpTo(CardRows, 1) ELSE {<<>>}) :
                kwRows = (CardTable :> c) @@ (GuideTable :> g)

\* what the pin step of retrieve_docs starts past the budget: a pin lookup is
\* started for every pin request (fetch_docs_by_ids, retrieve.py 461 and 469)
LatePins(docs) ==
    IF budgetSpent
       /\ Len(PinRequests(query, routing.route,
                          _pin_allowed(docs, critical_pin(query, routing.route,
                                                          routing.filters.phone_lookup)))) > 0
    THEN {"pin"} ELSE {}

\* the first retrieve_multi call of retrieve_docs; the budget of the request,
\* if it has one, may run out while the search is under way
SearchFirst ==
    /\ spc = "ready"
    /\ ~SearchRaises(query, retrieve_filters(query, routing), retrievalMode,
                     retrieve_sources(query, routing))
    /\ \E ord \in Orders :
        ranked' = retrieve_multi(query, routing.route, retrieve_filters(query, routing),
                                 retrievalMode, laneMixed,
                                 retrieve_sources(query, routing), TopK, ord)
    /\ budgetSpent' \in BOOLEAN
    /\ callerSources' = scoped_document_sources(callerSources,
                                                retrieve_sources(query, routing))
    /\ storeCalls' = MultiStoreCalls(query, routing.route, retrieve_filters(query, routing),
                                     retrievalMode, retrieve_sources(query, routing))
    /\ spc' = "searched"
    /\ UNCHANGED <<routerVars, rrfVars, callVars, taskVars, ragVars, embedOk, lateOps, metaMode, laneMixed,
                   retrievalMode, fetched, vecFetched, kwRows, retrieved, pinnedAdded, runs,
                   prevIds>>

\* card_usage with no or a weak top document: one more search in vector mode,
\* then pin injection
VectorRetry ==
    /\ spc = "searched"
    /\ NeedsVectorRetry
    /\ ~SearchRaises(query, retrieve_filters(query, routing), "vector",
                     retrieve_sources(query, routing))
    /\ \E ord \in Orders :
        LET docs == retrieve_multi(query, routing.route, retrieve_filters(query, routing),
                                   "vector", laneMixed,
                                   retrieve_sources(query, routing), TopK, ord)
            st == retrieve_docs(query, routing, docs)
        IN /\ ranked' = docs
           /\ retrieved' = st.docs
           /\ pinnedAdded' = st.added
           /\ lateOps' = (IF budgetSpent THEN {"escalation"} ELSE {}) \cup LatePins(docs)
    /\ storeCalls' = storeCalls
                      + MultiStoreCalls(query, routing.route, retrieve_filters(query, routing),
                                        "vector", retrieve_sources(query, routing))
    /\ spc' = "done" /\ runs' = runs + 1
    /\ UNCHANGED <<routerVars, rrfVars, callVars, taskVars, ragVars, embedOk, budgetSpent, callerSources, metaMode,
                   laneMixed, retrievalMode, fetched, vecFetched, kwRows, prevIds>>

\* embed_query raises inside the first search or inside the vector retry: the
\* exception leaves retrieve_docs, nothing is returned
SearchRaise ==
    /\ \/ /\ spc = "ready"
          /\ SearchRaises(query, retrieve_filters(query, routing), retrievalMode,
                          retrieve_sources(query, routing))
       \/ /\ spc = "searched"
          /\ NeedsVectorRetry
          /\ SearchRaises(query, retrieve_filters(query, routing), "vector",
                          retrieve_sources(query, routing))
    /\ callerSources' = IF spc = "ready"
                        THEN scoped_document_sources(callerSources,
                                                     retrieve_sources(query, routing))
                        ELSE callerSources
    /\ spc' = "raised"
    /\ UNCHANGED <<routerVars, rrfVars, callVars, taskVars, ragVars, embedOk, budgetSpent, lateOps, storeCalls,
                   metaMode, laneMixed, retrievalMode, fetched, vecFetched, kwRows, ranked,
                   retrieved, pinnedAdded, runs, prevIds>>

\* no retry: pin injection on the first result
InjectAndReturn ==
    /\ spc = "searched"
    /\ ~NeedsVectorRetry
    /\ LET st == retrieve_docs(query, routing, ranked)
       IN /\ retrieved' = st.docs
          /\ pinnedAdded' = st.added
    /\ lateOps' = LatePins(ranked)
    /\ spc' = "done" /\ runs' = runs + 1
    /\ UNCHANGED <<routerVars, rrfVars, callVars, taskVars, ragVars, embedOk, budgetSpent, storeCalls,
                   callerSources, metaMode, laneMixed, retrievalMode, fetched, vecFetched,
                   kwRows, ranked, prevIds>>

\* the same query is searched once more; stores and configuration are unchanged
SearchAgain ==
    /\ spc = "done" /\ runs = 1
    /\ prevIds' = DocIds(retrieved)
    /\ spc' = "ready"
    /\ ranked' = <<>> /\ retrieved' = <<>> /\ pinnedAdded' = 0
    /\ budgetSpent' = FALSE /\ lateOps' = {} /\ storeCalls' = 0
    /\ UNCHANGED <<routerVars, rrfVars, callVars, taskVars, ragVars, embedOk, callerSources, metaMode, laneMixed,
                   retrievalMode, fetched, vecFetched, kwRows, runs>>

NextRetrieve == SearchFirst \/ VectorRetry \/ SearchRaise \/ InjectAndReturn \/ SearchAgain
SpecRetrieve == InitRetrieve /\ [][NextRetrieve]_vars

(***************************************************************************)
(* SpecFinalize: _finalize_candidates applied to one candidate list        *)
(***************************************************************************)
\* a candidate as _score_candidate leaves it: the card-match flag is what the
\* stored row and the card filter of the query make it
FinalizeCandidate(d, rank, cm) ==
    [ table |-> TableOf(d), db_id |-> d, id |-> d,
      title |-> RowTitle(d), clen |-> RowContentLen(d),
      score |-> FinalScore(rank, 0, 0),
      card_match |-> cm, pinned |-> FALSE, pin_rank |-> -1 ]

\* candidate lists of both stores, in or against the order of their ranks, and
\* the relaxation flag of the search context
FinalizeArgs ==
    UNION { { [ candidates |->
                  [i \in 1..Len(sq) |->
                      FinalizeCandidate(sq[i], IF up THEN i ELSE Len(sq) + 1 - i, fl[i])],
                allow |-> allow ] :
              fl \in [1..Len(sq) -> BOOLEAN], up \in BOOLEAN, allow \in BOOLEAN } :
            sq \in SeqsUpTo(Rows, MaxRows + 1) }

InitFinalize ==
    /\ RouterInit /\ RRFInit /\ TaskInit /\ RetInit /\ RagInit
    /\ cpc = "ready"
    /\ callArgs \in FinalizeArgs
    /\ callResult = <<>>

FinalizeCall ==
    /\ cpc = "ready"
    /\ callResult' = _finalize_candidates(callArgs.candidates,
                          [allow_guide_without_card_match |-> callArgs.allow])
    /\ cpc' = "done"
    /\ UNCHANGED <<callArgs, routerVars, rrfVars, taskVars, retVars, ragVars>>

NextFinalize == FinalizeCall
SpecFinalize == InitFinalize /\ [][NextFinalize]_vars

(***************************************************************************)
(* _card_token_match (app/rag/router.py 83-100, 217-245) and SpecTokenMatch: *)
(* one call on a drawn token list and catalog                              *)
(***************************************************************************)
MaxTokens == 2      \* tokens _TOKEN_RE finds in one query

CARD_TOKEN_MIN_SCORE == 3
CARD_TOKEN_MAX_HITS == 3

\* what _TOKEN_RE can find: 나라사랑카드, 나라사랑, 신한, 체크, 카드체크, 카드, k
CardTokenWords == {"nara_card", "nara", "shinhan", "check", "card_check", "card", "k"}

\* len(token)
TokenLen(t) ==
    CASE t = "nara_card" -> 6
      [] t \in {"nara", "card_check"} -> 4
      [] t \in {"shinhan", "check", "card"} -> 2
      [] OTHER -> 1

_CARD_TOKEN_STOPWORDS == {"card"}

\* lines 83-91
_extract_tokens(found) ==
    SelectSeq(found, LAMBDA t : TokenLen(t) >= 2 /\ t \notin _CARD_TOKEN_STOPWORDS)

\* lines 94-100: the token, without a trailing and without a leading 카드
_expand_token_variants(token) ==
    LET out == <<token>>
               \o (IF token = "nara_card" THEN <<"nara">> ELSE <<>>)
               \o (IF token = "card_check" THEN <<"check">> ELSE <<>>)
    IN SelectSeq(out, LAMBDA t : t \notin _CARD_TOKEN_STOPWORDS)

RECURSIVE ExpandAll(_)
\* lines 221-223
ExpandAll(tokens) ==
    IF tokens = <<>> THEN <<>>
    ELSE _expand_token_variants(Head(tokens)) \o ExpandAll(Tail(tokens))

\* the catalog get_card_name_synonyms() can hold, in key order: 나라사랑카드 and
\* four 신한 체크 products
CardCatalog == <<"nara_card", "check_a", "check_b", "check_c", "check_d">>

\* the tokens that are substrings of _compact_text(name)
NameHolds(name) ==
    IF name = "nara_card" THEN {"nara_card", "nara", "card"} ELSE {"shinhan", "check"}

RECURSIVE NameScore(_, _)
\* lines 228-231
NameScore(name, variants) ==
    IF variants = <<>> THEN 0
    ELSE (IF Head(variants) \in NameHolds(name) THEN TokenLen(Head(variants)) ELSE 0)
         + NameScore(name, Tail(variants))

RECURSIVE TokenMatchLoop(_, _, _, _)
\* lines 226-239
TokenMatchLoop(names, variants, best_score, hits) ==
    IF names = <<>> THEN [best_score |-> best_score, hits |-> hits]
    ELSE LET score == NameScore(Head(names), variants)
         IN IF score <= 0 THEN TokenMatchLoop(Tail(names), variants, best_score, hits)
            ELSE IF score > best_score
            THEN TokenMatchLoop(Tail(names), variants, score, <<Head(names)>>)
            ELSE IF score = best_score
            THEN TokenMatchLoop(Tail(names), variants, best_score, Append(hits, Head(names)))
            ELSE TokenMatchLoop(Tail(names), variants, best_score, hits)

\* a match that returns the tied names however many they are
_card_token_matchNoCap(found, synonyms) ==
    LET l == TokenMatchLoop(synonyms, ExpandAll(_extract_tokens(found)), 0, <<>>)
    IN IF l.best_score < CARD_TOKEN_MIN_SCORE \/ l.hits = <<>> THEN <<>> ELSE l.hits

\* lines 217-245; found is what _TOKEN_RE finds in the query, synonyms the
\* catalog names in key order
_card_token_match(found, synonyms) ==
    LET tokens == _extract_tokens(found)
        variants == ExpandAll(tokens)
        l == TokenMatchLoop(synonyms, variants, 0, <<>>)
    IN IF tokens = <<>> \/ variants = <<>> THEN <<>>
       ELSE IF l.best_score < CARD_TOKEN_MIN_SCORE \/ l.hits = <<>> THEN <<>>
       ELSE IF Len(l.hits) > CARD_TOKEN_MAX_HITS THEN <<>>
       ELSE l.hits

TokenMatchArgs ==
    { [found |-> f, synonyms |-> SelectSeq(CardCatalog, LAMBDA n : n \in S)] :
        f \in UNION {[1..n -> CardTokenWords] : n \in 0..MaxTokens},
        S \in SUBSET Range(CardCatalog) }

InitTokenMatch ==
    /\ RouterInit /\ RRFInit /\ TaskInit /\ RetInit /\ RagInit
    /\ cpc = "ready"
    /\ callArgs \in TokenMatchArgs
    /\ callResult = <<>>

TokenMatchCall ==
    /\ cpc = "ready"
    /\ callResult' = _card_token_match(callArgs.found, callArgs.synonyms)
    /\ cpc' = "done"
    /\ UNCHANGED <<callArgs, routerVars, rrfVars, taskVars, retVars, ragVars>>

NextTokenMatch == TokenMatchCall
SpecTokenMatch == InitTokenMatch /\ [][NextTokenMatch]_vars

(***************************************************************************)
(* run_rag (app/rag/pipeline/pipeline.py 184-532) and the retrieval cache  *)
(***************************************************************************)
MaxRequests == 2

RAG_TOP_K == 4
DOMAIN_SCORE_FLIP == 3
RETRIEVE_CACHE_ENABLED == TRUE

\* "고객센터" is among the phone terms of line 201 and of line 209
_PHONE_INTENT_TERMS == {"call_center"}

\* what the session of the caller holds when a request arrives
SessionStates ==
    { NoFilters,
      [NoFilters EXCEPT !.card_name = {"NarasarangCard"}],
      [NoFilters EXCEPT !.intent = {"reissue"}] }

\* the session fills the filter fields the router left empty
apply_session_context(q, r, s) ==
    [r EXCEPT !.filters.card_name = IF @ = {} THEN s.card_name ELSE @,
              !.filters.intent = IF @ = {} THEN s.intent ELSE @]

\* decisions decide_search_gating can hand to run_rag
GatingOutcomes ==
    {[no_search |-> TRUE, domain_score |-> 0, retrieval_mode |-> "keyword_only"]}
    \cup [no_search : {FALSE}, domain_score : {0, DOMAIN_SCORE_FLIP},
          retrieval_mode : {"keyword_only", "hybrid"}]

\* lines 201-216
PhoneIntent(q, r) ==
    LET phone_intent == _contains_any(q, _PHONE_INTENT_TERMS)
        r1 == IF phone_intent
              THEN [r EXCEPT !.filters.phone_lookup = TRUE, !.route = "card_usage",
                             !.db_route = "guide_tbl", !.ui_route = "card_usage"]
              ELSE r
    IN IF phone_intent /\ r1.route = "card_info"
       THEN [r1 EXCEPT !.route = "card_usage", !.filters.phone_lookup = TRUE]
       ELSE r1

\* lines 200-224: the routing dict run_rag works with
RunRagRouting(q, s, g) ==
    PhoneIntent(q, apply_session_context(q, route_query(q), s))
        @@ [lane_allow_mixed |-> FALSE, domain_score |-> g.domain_score,
            retrieval_mode |-> g.retrieval_mode, lane_fallback_used |-> FALSE]

\* a gate that looks at the gating decision only
ShouldSearchGatingOnly(r, g) == ~g.no_search

\* lines 226-231
ShouldSearch(r, g) == IF g.no_search THEN FALSE ELSE r.should_search

\* a filter argument that forgets dict(filters)
CacheFiltersModeOnly(r) == NoFilters @@ [_retrieval_mode |-> r.retrieval_mode]

\* lines 253-254
CacheFilters(r) == r.filters @@ [_retrieval_mode |-> r.retrieval_mode]

\* the key serialises its five parts
build_retrieval_cache_key(normalized_query, route_name, db_route, filters, top_k) ==
    <<normalized_query, route_name, db_route, filters, top_k>>

\* lines 255-261; a query is held as its set of words, which is what
\* normalize_text leaves of it
RunRagCacheKey(q, r) ==
    build_retrieval_cache_key(q, r.route, r.db_route, CacheFilters(r), RAG_TOP_K)

\* get: in-process backend first, then the networked backend
retrieval_cache_get(key, mem, redis) ==
    LET m == {e \in mem : e.key = key}
        n == {e \in redis : e.key = key}
    IN IF m # {}
       THEN LET e == CHOOSE x \in m : TRUE
            IN [hit |-> TRUE, entries |-> e.entries, backend |-> "mem",
                filters |-> e.filters, consulted |-> FALSE]
       ELSE IF n # {}
       THEN LET e == CHOOSE x \in n : TRUE
            IN [hit |-> TRUE, entries |-> e.entries, backend |-> "redis",
                filters |-> e.filters, consulted |-> TRUE]
       ELSE [hit |-> FALSE, entries |-> <<>>, backend |-> "",
             filters |-> NoFilters, consulted |-> TRUE]

\* set on one backend: the entry of the key is overwritten
retrieval_cache_set(store, key, entries, filters) ==
    {e \in store : e.key # key}
        \cup {[key |-> key, entries |-> entries, filters |-> filters]}

\* the payload is the ordered list of document ids per store
build_retrieve_cache_entries(docs) ==
    [i \in 1..Len(docs) |-> [table |-> docs[i].table, id |-> docs[i].id]]

docs_from_retrieve_cache(entries) ==
    [i \in 1..Len(entries) |->
        [table |-> entries[i].table, id |-> entries[i].id,
         low_score |-> FALSE, card_match |-> TRUE]]

\* a status that names the networked backend whatever the origin
RunRagCacheStatusRedis(c, docs) ==
    IF c.hit THEN (IF Len(docs) > 0 THEN "hit(redis)" ELSE "miss") ELSE "miss"

\* lines 262-268
RunRagCacheStatus(c, docs) ==
    IF c.hit
    THEN (IF Len(docs) > 0
          THEN (IF c.backend = "mem" THEN "hit(mem)" ELSE "hit(redis)")
          ELSE "miss")
    ELSE "miss"

CacheHits == {"hit(mem)", "hit(redis)"}

\* lines 80-91
_retrieval_failed(docs, r) ==
    IF Len(docs) = 0 THEN TRUE
    ELSE IF docs[1].low_score THEN TRUE
    ELSE r.route = "card_info" /\ r.filters.card_name # {} /\ ~docs[1].card_match

\* lines 94-105
_flip_route_for_fallback(r) ==
    [r EXCEPT !.route = IF r.route = "card_info" THEN "card_usage"
                        ELSE IF r.route = "card_usage" THEN "card_info" ELSE @,
              !.db_route = IF r.route = "card_info" THEN "guide_tbl"
                           ELSE IF r.route = "card_usage" THEN "card_tbl" ELSE @,
              !.lane_fallback_used = TRUE]

\* a flip that does not look at the domain score
ShouldFlipAnyScore(docs, r) == Len(docs) = 0 /\ ~r.lane_fallback_used

\* lines 279-283
ShouldFlip(docs, r) ==
    Len(docs) = 0 /\ r.domain_score >= DOMAIN_SCORE_FLIP /\ ~r.lane_fallback_used

\* rows the stores hold for the requests of this specification
RagRows == {"CARD_narasarang", "loss_merged"}

RagDoc(d, low, cm) ==
    [table |-> TableOf(d), id |-> d, low_score |-> low, card_match |-> cm]

\* score below 0.05 and card_match of the top document
TopFlags == {<<FALSE, TRUE>>, <<TRUE, TRUE>>, <<FALSE, FALSE>>}

\* the lists a retrieve_docs call can return for a routing: rows of the tables it
\* searches, the top document good, weak or without card match
StoreAnswers(q, r) ==
    LET rows == RagRows \cap UNION {RowsOf(t) : t \in retrieve_sources(q, r)}
    IN {<<>>} \cup
       { [i \in 1..Len(sq) |-> IF i = 1 THEN RagDoc(sq[i], fl[1], fl[2])
                                ELSE RagDoc(sq[i], FALSE, TRUE)] :
            sq \in SeqsUpTo(rows, MaxRows) \ {<<>>}, fl \in TopFlags }

\* the consult-case lookup is gated by the router's intent signals
should_search_consult_cases(q, r, s) == r.need_consult_case_search

\* generator.py 139-145
filter_card_product_docs(docs) == SelectSeq(docs, LAMBDA d : d.table = CardTable)

\* lines 304-317: query terms found in title, content or category
_doc_score(doc, q) ==
    Cardinality({t \in q : t \in RowTitleWords(doc.id) \cup RowWords(doc.id)
                                  \cup RowCategory(doc.id)})

\* lines 297-322
RunRagPostProcess(q, r, docs) ==
    IF r.route = "card_info"
    THEN LET keyed == [i \in 1..Len(docs) |-> [doc |-> docs[i], score |-> _doc_score(docs[i], q)]]
             sorted == IF q # {}
                       THEN LET k == SortByScoreDesc(keyed)
                            IN [i \in 1..Len(k) |-> k[i].doc]
                       ELSE docs
         IN IF Len(filter_card_product_docs(sorted)) = 0 THEN <<>> ELSE sorted
    ELSE docs

CARD_CACHE_ENABLED == TRUE
RAG_MODEL == "gpt-4.1-mini"
LLM_CARD_TOP_N == 2

\* lines 190 and 301
llm_card_top_n(r) ==
    LET n == IF LLM_CARD_TOP_N > 1 THEN LLM_CARD_TOP_N ELSE 1
    IN IF r.route = "card_info" /\ n < 3 THEN 3 ELSE n

\* the key serialises its six parts, the ordered id list among them
build_card_cache_key(route_name, model, top_n, template, normalized_query, doc_ids) ==
    <<route_name, model, top_n, template, normalized_query, doc_ids>>

\* a key built from the ids without their order
RunRagCardCacheKeyUnordered(q, r, ordered_doc_ids) ==
    build_card_cache_key(r.route, RAG_MODEL, llm_card_top_n(r), "", q, Range(ordered_doc_ids))

\* lines 331-338; the router sets no query_template
RunRagCardCacheKey(q, r, ordered_doc_ids) ==
    build_card_cache_key(r.route, RAG_MODEL, llm_card_top_n(r), "", q, ordered_doc_ids)

card_cache_get(store, key) == {e \in store : e.key = key}

card_cache_set(store, key, ids) ==
    {e \in store : e.key # key} \cup {[key |-> key, ids |-> ids]}

\* the filter set a request searches with, retrieval mode included
RequestFilters == ragRouting.filters @@ [_retrieval_mode |-> gating.retrieval_mode]

(***************************************************************************)
(* SpecRag: successive run_rag requests for one query; the session of the  *)
(* caller may change between requests, cache entries may expire            *)
(***************************************************************************)
RagQueries ==
    { {"just"}, {"narasarang_card"}, {"loss"}, {"call_center"},
      {"narasarang_card", "benefit"}, {"narasarang_card", "pay_error"} }

InitRag ==
    /\ RRFInit /\ CallInit /\ TaskInit /\ RetInit
    /\ strictSearch = STRICT_SEARCH
    /\ rpc = "routed"
    /\ query \in RagQueries
    /\ routing = route_query(query)
    /\ gating \in GatingOutcomes
    /\ rq = "idle" /\ reqNo = 1 /\ session = NoFilters
    /\ ragRouting = NoRouting /\ cacheKey = <<>> /\ cached = NoCached
    /\ ragDocs = <<>> /\ cacheStatus = "off"
    /\ memCache = {} /\ redisCache = {} /\ redisConsulted = FALSE
    /\ searchCalls = 0 /\ flipCalls = 0 /\ consultCalls = 0 /\ consult = NoConsult
    /\ response = NoResponse /\ prev = NoPrev /\ expired = FALSE
    /\ cardCache = {} /\ cardStatus = "off" /\ answerFor = <<>>

\* lines 200-261: routing, gating, the search gate and the cache key
RagBegin ==
    /\ rq = "idle"
    /\ \E s \in SessionStates :
        LET r == RunRagRouting(query, s, gating)
        IN /\ session' = s
           /\ ragRouting' = r
           /\ IF ~ShouldSearch(r, gating)
              THEN /\ rq' = "done"
                   /\ cacheKey' = <<>>
                   /\ response' = [kind |-> "clarify", route |-> r.route, ids |-> <<>>]
              ELSE /\ rq' = IF RETRIEVE_CACHE_ENABLED THEN "lookup" ELSE "retrieve"
                   /\ cacheKey' = IF RETRIEVE_CACHE_ENABLED
                                  THEN RunRagCacheKey(query, r) ELSE <<>>
                   /\ response' = NoResponse
    /\ cached' = NoCached /\ ragDocs' = <<>> /\ cacheStatus' = "off"
    /\ redisConsulted' = FALSE /\ searchCalls' = 0 /\ flipCalls' = 0 /\ consultCalls' = 0
    /\ consult' = NoConsult
    /\ cardStatus' = "off" /\ answerFor' = <<>>
    /\ UNCHANGED <<routerVars, rrfVars, callVars, taskVars, retVars, cardCache, reqNo, gating, memCache,
                   redisCache, prev, expired>>

\* lines 262-268: await retrieval_cache_get
RagLookup ==
    /\ rq = "lookup"
    /\ LET c == retrieval_cache_get(cacheKey, memCache, redisCache)
           docs == IF c.hit THEN docs_from_retrieve_cache(c.entries) ELSE <<>>
           status == RunRagCacheStatus(c, docs)
       IN /\ cached' = [hit |-> c.hit, entries |-> c.entries, backend |-> c.backend,
                        filters |-> c.filters, stale |-> expired]
          /\ redisConsulted' = c.consulted
          /\ ragDocs' = docs
          /\ cacheStatus' = status
          /\ rq' = IF status \in CacheHits THEN "finish" ELSE "retrieve"
          /\ expired' = IF status \in CacheHits THEN FALSE ELSE expired
    /\ UNCHANGED <<routerVars, rrfVars, callVars, taskVars, retVars, ansVars, reqNo, session, gating, ragRouting,
                   cacheKey, memCache, redisCache, searchCalls, flipCalls, consultCalls, consult,
                   response, prev>>

\* line 274: the first retrieve_docs call
RagRetrieve ==
    /\ rq = "retrieve"
    /\ \E docs \in StoreAnswers(query, ragRouting) :
        /\ ragDocs' = docs
        /\ rq' = IF _retrieval_failed(docs, ragRouting)
                    /\ ragRouting.retrieval_mode # "hybrid"
                 THEN "retry_hybrid"
                 ELSE IF ShouldFlip(docs, ragRouting) THEN "retry_flip" ELSE "store"
    /\ searchCalls' = searchCalls + 1
    /\ UNCHANGED flipCalls
    /\ UNCHANGED <<routerVars, rrfVars, callVars, taskVars, retVars, ansVars, reqNo, session, gating, ragRouting,
                   cacheKey, cached, cacheStatus, memCache, redisCache, redisConsulted,
                   consultCalls, consult, response, prev, expired>>

\* lines 275-278: the search is repeated in hybrid mode
RagRetryHybrid ==
    /\ rq = "retry_hybrid"
    /\ LET r == [ragRouting EXCEPT !.retrieval_mode = "hybrid"]
       IN /\ ragRouting' = r
          /\ \E docs \in StoreAnswers(query, r) :
                /\ ragDocs' = docs
                /\ rq' = IF ShouldFlip(docs, r) THEN "retry_flip" ELSE "store"
    /\ searchCalls' = searchCalls + 1
    /\ UNCHANGED flipCalls
    /\ UNCHANGED <<routerVars, rrfVars, callVars, taskVars, retVars, ansVars, reqNo, session, gating,
                   cacheKey, cached, cacheStatus, memCache, redisCache, redisConsulted,
                   consultCalls, consult, response, prev, expired>>

\* lines 279-287: the other route is searched once
RagRetryFlip ==
    /\ rq = "retry_flip"
    /\ LET flipped == _flip_route_for_fallback(ragRouting)
       IN \E docs \in StoreAnswers(query, flipped) :
            /\ ragDocs' = docs
            /\ ragRouting' = IF Len(docs) > 0 THEN flipped ELSE ragRouting
    /\ rq' = "store"
    /\ searchCalls' = searchCalls + 1
    /\ flipCalls' = flipCalls + 1
    /\ UNCHANGED <<routerVars, rrfVars, callVars, taskVars, retVars, ansVars, reqNo, session, gating,
                   cacheKey, cached, cacheStatus, memCache, redisCache, redisConsulted,
                   consultCalls, consult, response, prev, expired>>

\* a write that is skipped when the in-process backend already holds the key
RunRagShouldStoreOnce(entries, key) ==
    /\ RETRIEVE_CACHE_ENABLED /\ key # <<>> /\ Len(entries) > 0
    /\ \A e \in sharedMem : e.key # key

\* lines 288-290: what is retrieved is written when it has entries
RunRagShouldStore(entries, key) ==
    RETRIEVE_CACHE_ENABLED /\ key # <<>> /\ Len(entries) > 0

\* lines 288-293: await retrieval_cache_set, both backends
RagCacheSet ==
    /\ rq = "store"
    /\ LET entries == build_retrieve_cache_entries(ragDocs)
       IN IF RunRagShouldStore(entries, cacheKey)
          THEN /\ memCache' = retrieval_cache_set(memCache, cacheKey, entries, RequestFilters)
               /\ redisCache' = retrieval_cache_set(redisCache, cacheKey, entries, RequestFilters)
               /\ expired' = FALSE
          ELSE UNCHANGED <<memCache, redisCache, expired>>
    /\ rq' = "finish"
    /\ UNCHANGED <<routerVars, rrfVars, callVars, taskVars, retVars, ansVars, reqNo, session, gating, ragRouting,
                   cacheKey, cached, ragDocs, cacheStatus, redisConsulted, searchCalls, flipCalls,
                   consultCalls, consult, response, prev>>

\* lines 294-322 and the return: consult-case lookup, post-processing
RagFinish ==
    /\ rq = "finish"
    /\ IF should_search_consult_cases(query, ragRouting, session)
       THEN /\ consultCalls' = consultCalls + 1
            /\ \E lookup \in ConsultLookups :
                 consult' = [attempted |-> TRUE, threw |-> lookup.throws]
                                @@ retrieve_consult_cases(ragRouting, lookup)
       ELSE UNCHANGED <<consultCalls, consult>>
    /\ IF consult'.raised
       THEN /\ rq' = "raised"
            /\ UNCHANGED response
       ELSE /\ response' = [kind |-> "answer", route |-> ragRouting.route,
                            ids |-> DocIds(RunRagPostProcess(query, ragRouting, ragDocs))]
            /\ rq' = "cards"
    /\ UNCHANGED <<routerVars, rrfVars, callVars, taskVars, retVars, ansVars, reqNo, session, gating, ragRouting,
                   cacheKey, cached, ragDocs, cacheStatus, memCache, redisCache,
                   redisConsulted, searchCalls, flipCalls, prev, expired>>

\* lines 324-360: rule cards without documents, else the answer cache around
\* generate_detail_cards; the cards are generated from the documents at hand
RagCards ==
    /\ rq = "cards"
    /\ LET ordered_doc_ids == response.ids
           key == RunRagCardCacheKey(query, ragRouting, ordered_doc_ids)
           hit == card_cache_get(cardCache, key)
       IN IF Len(ordered_doc_ids) = 0
          THEN /\ cardStatus' = "off" /\ answerFor' = <<>>
               /\ UNCHANGED cardCache
          ELSE IF CARD_CACHE_ENABLED /\ llm_card_top_n(ragRouting) > 0
          THEN IF hit # {}
               THEN /\ cardStatus' = "hit(mem)"
                    /\ answerFor' = (CHOOSE e \in hit : TRUE).ids
                    /\ UNCHANGED cardCache
               ELSE /\ cardStatus' = "miss"
                    /\ answerFor' = ordered_doc_ids
                    /\ cardCache' = card_cache_set(cardCache, key, ordered_doc_ids)
          ELSE /\ cardStatus' = "off" /\ answerFor' = ordered_doc_ids
               /\ UNCHANGED cardCache
    /\ rq' = "done"
    /\ UNCHANGED <<routerVars, rrfVars, callVars, taskVars, retVars, reqNo, session, gating, ragRouting,
                   cacheKey, cached, ragDocs, cacheStatus, memCache, redisCache,
                   redisConsulted, searchCalls, flipCalls, consultCalls, consult, response, prev, expired>>

\* the caller sends the same query again
RagNextRequest ==
    /\ rq = "done" /\ reqNo < MaxRequests
    /\ prev' = [session |-> session, retrieved |-> Len(ragDocs), ids |-> response.ids,
                kind |-> response.kind, key |-> cacheKey,
                entries |-> build_retrieve_cache_entries(ragDocs),
                wrote |-> (cacheStatus = "miss" /\ Len(ragDocs) > 0)]
    /\ reqNo' = reqNo + 1
    /\ rq' = "idle"
    /\ UNCHANGED <<routerVars, rrfVars, callVars, taskVars, retVars, ansVars, session, gating, ragRouting,
                   cacheKey, cached, ragDocs, cacheStatus, memCache, redisCache,
                   redisConsulted, searchCalls, flipCalls, consultCalls, consult, response, expired>>

\* the short TTL of the in-process backend runs out, or the entry is evicted
ExpireMem ==
    /\ rq = "idle"
    /\ \E e \in memCache : memCache' = memCache \ {e}
    /\ expired' = TRUE
    /\ UNCHANGED <<routerVars, rrfVars, callVars, taskVars, retVars, ansVars, rq, reqNo, session, gating, ragRouting,
                   cacheKey, cached, ragDocs, cacheStatus, redisCache,
                   redisConsulted, searchCalls, flipCalls, consultCalls, consult, response, prev>>

\* the longer TTL of the networked backend runs out
ExpireRedis ==
    /\ rq = "idle"
    /\ \E e \in redisCache :
        /\ \A m \in memCache : m.key # e.key
        /\ redisCache' = redisCache \ {e}
    /\ expired' = TRUE
    /\ UNCHANGED <<routerVars, rrfVars, callVars, taskVars, retVars, ansVars, rq, reqNo, session, gating, ragRouting,
                   cacheKey, cached, ragDocs, cacheStatus, memCache,
                   redisConsulted, searchCalls, flipCalls, consultCalls, consult, response, prev>>

NextRag ==
    \/ RagBegin \/ RagLookup \/ RagRetrieve \/ RagRetryHybrid \/ RagRetryFlip
    \/ RagCacheSet \/ RagFinish \/ RagCards \/ RagNextRequest \/ ExpireMem \/ ExpireRedis
SpecRag == InitRag /\ [][NextRag]_vars

(***************************************************************************)
(* SpecTwoRequests: two run_rag coroutines with the same retrieval-cache   *)
(* key, interleaved at their awaits (pipeline.py 262-293)                  *)
(***************************************************************************)
Tasks == {1, 2}
Backends == {"mem", "redis"}

TaskQuery == {"loss"}
TaskGating == [no_search |-> FALSE, domain_score |-> 0, retrieval_mode |-> "hybrid"]
TaskRouting == RunRagRouting(TaskQuery, NoFilters, TaskGating)
\* lines 255-261: both requests build the same key
TaskKey == RunRagCacheKey(TaskQuery, TaskRouting)

\* the lists the retrieval of one request can end with, the empty list included
TaskAnswers ==
    { [i \in 1..Len(sq) |-> RagDoc(sq[i], FALSE, TRUE)] : sq \in SeqsUpTo(RagRows, 2) }

NewTask == [pc |-> "lookup", status |-> "off", docs |-> <<>>, searches |-> 0, sets |-> 0]

InitTwoRequests ==
    /\ RouterInit /\ RRFInit /\ CallInit /\ RetInit /\ RagInit
    /\ tasks = [t \in Tasks |-> NewTask]
    /\ sharedMem = {} /\ sharedRedis = {}
    /\ lastWriter = [b \in Backends |-> 0]

\* lines 262-268: await retrieval_cache_get
TaskLookup(t) ==
    /\ tasks[t].pc = "lookup"
    /\ LET c == retrieval_cache_get(TaskKey, sharedMem, sharedRedis)
           docs == IF c.hit THEN docs_from_retrieve_cache(c.entries) ELSE <<>>
           status == RunRagCacheStatus(c, docs)
       IN tasks' = [tasks EXCEPT ![t].status = status, ![t].docs = docs,
                                 ![t].pc = IF status \in CacheHits THEN "done"
                                           ELSE "retrieve"]
    /\ UNCHANGED <<routerVars, rrfVars, callVars, retVars, ragVars,
                   sharedMem, sharedRedis, lastWriter>>

\* lines 273-287: await retrieve_docs, escalation included
TaskRetrieve(t) ==
    /\ tasks[t].pc = "retrieve"
    /\ \E docs \in TaskAnswers :
        tasks' = [tasks EXCEPT ![t].docs = docs, ![t].searches = @ + 1, ![t].pc = "store"]
    /\ UNCHANGED <<routerVars, rrfVars, callVars, retVars, ragVars,
                   sharedMem, sharedRedis, lastWriter>>

\* lines 288-291: await retrieval_cache_set, the in-process backend's write
TaskSetMem(t) ==
    /\ tasks[t].pc = "store"
    /\ LET entries == build_retrieve_cache_entries(tasks[t].docs)
       IN IF RunRagShouldStore(entries, TaskKey)
          THEN /\ sharedMem' = retrieval_cache_set(sharedMem, TaskKey, entries,
                                                   CacheFilters(TaskRouting))
               /\ lastWriter' = [lastWriter EXCEPT !["mem"] = t]
               /\ tasks' = [tasks EXCEPT ![t].pc = "store_redis"]
          ELSE /\ tasks' = [tasks EXCEPT ![t].pc = "done"]
               /\ UNCHANGED <<sharedMem, lastWriter>>
    /\ UNCHANGED <<routerVars, rrfVars, callVars, retVars, ragVars, sharedRedis>>

\* the networked backend's write of the same retrieval_cache_set call
TaskSetRedis(t) ==
    /\ tasks[t].pc = "store_redis"
    /\ sharedRedis' = retrieval_cache_set(sharedRedis, TaskKey,
                                          build_retrieve_cache_entries(tasks[t].docs),
                                          CacheFilters(TaskRouting))
    /\ lastWriter' = [lastWriter EXCEPT !["redis"] = t]
    /\ tasks' = [tasks EXCEPT ![t].pc = "done", ![t].sets = @ + 1]
    /\ UNCHANGED <<routerVars, rrfVars, callVars, retVars, ragVars, sharedMem>>

\* the short TTL of the in-process backend runs out
TaskExpireMem ==
    /\ sharedMem # {}
    /\ sharedMem' = {}
    /\ UNCHANGED <<routerVars, rrfVars, callVars, retVars, ragVars,
                   tasks, sharedRedis, lastWriter>>

TaskStep(t) == TaskLookup(t) \/ TaskRetrieve(t) \/ TaskSetMem(t) \/ TaskSetRedis(t)

NextTwoRequests ==
    \/ \E t \in Tasks : TaskLookup(t)
    \/ \E t \in Tasks : TaskRetrieve(t)
    \/ \E t \in Tasks : TaskSetMem(t)
    \/ \E t \in Tasks : TaskSetRedis(t)
    \/ TaskExpireMem
SpecTwoRequests == InitTwoRequests /\ [][NextTwoRequests]_vars

(***************************************************************************)
(* SpecCards: the card post-processing of run_rag (pipeline.py 366-379)    *)
(* on a drawn card list, route and phone_lookup filter                     *)
(***************************************************************************)
MaxCards == 2       \* cards the generator or the answer cache yields

\* a card: the document it was written from, whether its content holds a
\* phone number, whether split_cards_by_query counts it as the current situation
Cards == [doc : RagRows, phone : BOOLEAN, current : BOOLEAN]

\* a Python value that is a list of cards or None
NoneCards == [none |-> TRUE, items |-> <<>>]
ListCards(l) == [none |-> FALSE, items |-> l]
\* "not cards"
NotCards(c) == c.none \/ c.items = <<>>

\* lines 75-77: the body ends after the guard, a non-empty list falls off the
\* end of the function; query is not read
_ensure_query_terms_in_cards(cards) ==
    IF NotCards(cards) THEN cards ELSE NoneCards

\* lines 163-176: every card is kept, phone numbers are cut from its content
_strip_phone_in_cards(cards) ==
    IF NotCards(cards) THEN cards
    ELSE ListCards([i \in 1..Len(cards.items) |-> [cards.items[i] EXCEPT !.phone = FALSE]])

\* the cards in two lists, none left out
split_cards_by_query(cards) ==
    [currentSituation |-> SelectSeq(cards, LAMBDA c : c.current),
     nextStep |-> SelectSeq(cards, LAMBDA c : ~c.current)]

\* lines 367-379 and 499-500
RunRagCardPost(cards, route_name, phone_lookup) ==
    LET c0 == ListCards(cards)
        c1 == IF route_name = "card_info" THEN _ensure_query_terms_in_cards(c0) ELSE c0
        c2 == IF ~phone_lookup THEN _strip_phone_in_cards(c1) ELSE c1
        c3 == IF c2.none THEN <<>> ELSE c2.items
    IN split_cards_by_query(c3)

CardPostArgs ==
    [cards : UNION {[1..n -> Cards] : n \in 0..MaxCards},
     route : {"card_info", "card_usage"},
     phone_lookup : BOOLEAN]

InitCards ==
    /\ RouterInit /\ RRFInit /\ TaskInit /\ RetInit /\ RagInit
    /\ cpc = "ready"
    /\ callArgs \in CardPostArgs
    /\ callResult = <<>>

CardPostCall ==
    /\ cpc = "ready"
    /\ callResult' = RunRagCardPost(callArgs.cards, callArgs.route, callArgs.phone_lookup)
    /\ cpc' = "done"
    /\ UNCHANGED <<callArgs, routerVars, rrfVars, taskVars, retVars, ragVars>>

NextCards == CardPostCall
SpecCards == InitCards /\ [][NextCards]_vars

(***************************************************************************)
CardAndActionMatched ==
    /\ rpc = "routed"
    /\ extract_signals(query).card_names # {}
    /\ extract_signals(query).actions # {}

KeepsIntentHint ==
    \/ ( (query \cap _LOSS_STRONG_TERMS) # {}
         /\ ( (query \cap _CARDINFO_TERMS) = {} \/ (query \cap _LOSS_ACTION_TERMS) # {} ) )
    \/ ( (query \cap _CARDINFO_TERMS) = {}
         /\ (extract_signals(query).actions \ LossNamedActions) # {} )

C12_SearchNamesStore ==
    (rpc = "routed" /\ routing.should_search) =>
        routing.db_route \in {"card_tbl", "guide_tbl", "both"}

\* a forced-rule query with no card, action or payment match: the ladder alone
\* would not search it, the forced-rule path does, over the card table
C12_Witness ==
    /\ rpc = "routed"
    /\ "force_phrase" \in query
    /\ ~_is_phone_lookup(query)
    /\ ~LadderShouldSearch(extract_signals(query))
    /\ routing.should_search
    /\ routing.route = "card_info"
    /\ routing.db_route = "card_tbl"

(***************************************************************************)
(* C13 - the search gate                                                   *)
(***************************************************************************)
\* C13 as stated: in strict mode should_search is true exactly when
\* should_trigger is true and the normalized query has at least
\* min_query_length characters; in permissive mode it is always true.
C13_AsStated ==
    rpc = "routed" =>
        IF strictSearch
        THEN routing.should_search <=>
                (routing.should_trigger /\ _normalize_query_len(query) >= MIN_QUERY_LEN)
        ELSE routing.should_search

LadderPath == rpc = "routed" /\ ~_is_phone_lookup(query) /\ match_force_rule(query) = "none"

StrongSignal ==
    \/ extract_signals(query).card_names # {}
    \/ extract_signals(query).actions # {}
    \/ extract_signals(query).payments # {}

\* C13 (amended): on the ladder path (no phone-lookup term, no forced rule) and
\* in strict mode, should_search is true exactly when a card name, an action or
\* a payment method is matched and the normalized query has at least
\* min_query_length characters, whatever should_trigger is; on the phone-lookup
\* and forced-rule paths and in permissive mode should_search is true.
C13_SearchFollowsSignal ==
    rpc = "routed" =>
        IF LadderPath /\ strictSearch
        THEN routing.should_search <=>
                (StrongSignal /\ _normalize_query_len(query) >= MIN_QUERY_LEN)
        ELSE routing.should_search

\* an action outside the allowlist, alone: no trigger, yet the query is searched
C13_Witness ==
    /\ LadderPath /\ strictSearch
    /\ query = {"pay_error"}
    /\ ~routing.should_trigger
    /\ routing.should_search
    /\ routing.db_route = "guide_tbl"

(***************************************************************************)
(* C14 - nothing matched                                                   *)
(***************************************************************************)
NothingMatched == rpc = "routed" /\ ~StrongSignal

FallbackDecision ==
    /\ routing.route = "card_usage"
    /\ routing.db_route = "both"
    /\ ~routing.should_trigger
    /\ (strictSearch => ~routing.should_search)

\* C14 as stated: every query in which no card name, action, payment or
\* compound pattern is matched is routed to card_usage over both stores with
\* should_trigger false and, in strict mode, should_search false.
C14_AsStated == NothingMatched => FallbackDecision

\* C14 (amended): every query in which no card name, action, payment or
\* compound pattern is matched, and which holds no phone-lookup term and matches
\* no forced rule, is routed to card_usage over both stores with should_trigger
\* false and, in strict mode, should_search false.
C14_NothingMatchedFallback == (NothingMatched /\ LadderPath) => FallbackDecision

\* "그냥 궁금해서요" in strict mode
C14_Witness ==
    /\ NothingMatched /\ LadderPath /\ strictSearch
    /\ "just" \in query
    /\ routing.route = "card_usage" /\ routing.db_route = "both"
    /\ ~routing.should_trigger /\ ~routing.should_search

(***************************************************************************)
(* C15 - loss/theft disambiguation                                         *)
(***************************************************************************)
\* C15: every query that matches a card name, holds a strong loss/theft term
\* and holds no info-seeking term is routed to card_usage, also when no action
\* is matched and the ladder alone gives card_info.
C15_LossForcesCardUsage ==
    ( /\ rpc = "routed"
      /\ extract_signals(query).card_names # {}
      /\ _contains_any(query, _LOSS_STRONG_TERMS)
      /\ ~_contains_any(query, _CARDINFO_TERMS) )
    => routing.route = "card_usage"

(***************************************************************************)
(* C16 - the loss/theft guide pin                                          *)
(***************************************************************************)
LossRetrievalDone ==
    spc = "done" /\ routing.route = "card_usage" /\ HasLossTerm(query)

\* the first id of the loss/theft pin list
LossGuideId == IF "narasarang_card" \in query THEN "narasarang_faq_005" ELSE "loss_merged"

\* C16: the list returned by a card_usage retrieval whose query holds a
\* loss/theft term contains, marked as pinned, the first loss guide document of
\* the pin list (narasarang_faq_005 when the query names 나라사랑, else the general
\* loss/theft guide), whatever the ranked results and their scores are.
C16_LossGuidePinned ==
    LossRetrievalDone =>
        \E i \in 1..Len(retrieved) :
            /\ retrieved[i].id = LossGuideId
            /\ retrieved[i].table = GuideTable
            /\ retrieved[i].pinned

\* the search ranked nothing at all, the pin is there all the same
C16_Witness ==
    /\ LossRetrievalDone
    /\ query = {"loss"}
    /\ Len(ranked) = 0
    /\ \E i \in 1..Len(retrieved) : retrieved[i].id = "loss_merged" /\ retrieved[i].pinned

(***************************************************************************)
(* C17 - phone lookup                                                      *)
(***************************************************************************)
PhoneQuerySearched ==
    spc \in {"searched", "done"} /\ (query \cap _PHONE_LOOKUP_TERMS) # {}

CardOnlyMatched ==
    /\ rpc = "routed"
    /\ extract_signals(query).card_names # {}
    /\ extract_signals(query).actions = {}
    /\ extract_signals(query).payments = {}
    /\ extract_signals(query).weak_intents = {}

\* neither the phone-lookup bypass, nor a forced rule, nor the loss/theft
\* disambiguation applies
NoOverride ==
    /\ LadderPath
    /\ ~( _contains_any(query, _LOSS_STRONG_TERMS) /\ ~_contains_any(query, _CARDINFO_TERMS) )

C19_EmbeddingFailureAbsorbed == ~embedOk => spc # "raised"

(***************************************************************************)
(* C20 - the time budget                                                   *)
(***************************************************************************)
\* C20: once the elapsed time of a request has reached its budget, retrieve_docs
\* starts no further escalation search and no pin lookup: nothing is ever
\* started past the budget.
C20_NothingStartedPastBudget == lateOps = {}

(***************************************************************************)
(* C21 - the per-query cap on store queries                                *)
(***************************************************************************)
\* C21: during one request the number of store queries issued (vector and
\* keyword searches over both stores, across the escalation tiers) never
\* exceeds MAX_DB_CALLS.
C21_StoreCallsCapped == storeCalls <= MAX_DB_CALLS

(***************************************************************************)
(* C22 - the consult-case lookup degrades silently                         *)
(***************************************************************************)
ConsultAttempted == rq \in {"cards", "done"} /\ consult.attempted

\* C22: retrieve_consult_cases never raises; when need_consult_case_search is
\* false or the transcript lookup throws it returns the empty list, and the
\* request keeps its should_search value and answers with the documents it
\* ranked, as without the lookup.
C22_ConsultDegradesSilently ==
    /\ rq # "raised"
    /\ ~consult.raised
    /\ consult.attempted =>
          /\ (consult.threw \/ ~ragRouting.need_consult_case_search) => consult.docs = <<>>
          /\ rq \in {"cards", "done"} =>
                /\ ragRouting.should_search
                /\ response.kind = "answer"
                /\ response.ids = DocIds(RunRagPostProcess(query, ragRouting, ragDocs))

\* a request whose transcript lookup threw and which answered from its documents
C22_Witness ==
    /\ ConsultAttempted
    /\ consult.threw /\ consult.docs = <<>>
    /\ response.kind = "answer" /\ Len(response.ids) > 0

(***************************************************************************)
(* C23 - the route flip of the escalation                                  *)
(***************************************************************************)
FlipTried == rq \in {"store", "finish", "cards", "done"} /\ flipCalls > 0

\* C23: the escalation tiers of a request run in sequence and the route flip is
\* tried at most once, only after the earlier tiers ended with no document and
\* only with a domain score of at least 3; the routing of the request becomes
\* the flipped one only if the flipped retrieval returned documents.
C23_FlipOnceAfterEmptyTiers ==
    /\ flipCalls <= 1
    /\ rq = "retry_flip" =>
          /\ flipCalls = 0 /\ searchCalls >= 1
          /\ Len(ragDocs) = 0
          /\ ragRouting.domain_score >= DOMAIN_SCORE_FLIP
    /\ rq = "retry_hybrid" => flipCalls = 0 /\ searchCalls = 1
    /\ FlipTried =>
          /\ gating.domain_score >= DOMAIN_SCORE_FLIP
          /\ searchCalls = IF gating.retrieval_mode = "hybrid" THEN 2 ELSE 3
          /\ ragRouting.retrieval_mode = "hybrid"
          /\ ragRouting.lane_fallback_used <=> Len(ragDocs) > 0
          /\ LET was == RunRagRouting(query, session, gating).route
             IN ragRouting.route = IF Len(ragDocs) = 0 THEN was
                                   ELSE IF was = "card_info" THEN "card_usage"
                                   ELSE "card_info"
    /\ (rq \notin {"off", "idle"} /\ flipCalls = 0) => ~ragRouting.lane_fallback_used

\* a request that flipped from card_info to card_usage and kept the flipped routing
C23_Witness ==
    /\ FlipTried
    /\ RunRagRouting(query, session, gating).route = "card_info"
    /\ ragRouting.route = "card_usage" /\ ragRouting.lane_fallback_used
    /\ Len(ragDocs) > 0

(***************************************************************************)
(* C24 - the single lane of retrieve_multi                                 *)
(***************************************************************************)
\* the store retrieve_multi serves a route from when lanes are not mixed
DominantTable == IF routing.route = "card_info" THEN CardTable ELSE GuideTable

\* the candidates of the dominant store that survive the card-match filter and
\* the dedup of _finalize_candidates, for the iteration order ord
DominantSurvivors(ord) ==
    LET ctx == _build_search_context(query, retrieve_filters(query, routing))
        tbl == DominantTable
    IN IF tbl \notin retrieve_sources(query, routing) THEN <<>>
       ELSE _finalize_candidates(
                _build_candidates_from_rows(
                    _fetch_rows(tbl, ctx, retrievalMode # "keyword_only"),
                    _keyword_rows(tbl, ctx), tbl, ctx, metaMode, ord),
                ctx)

\* C24: with lane_allow_mixed false retrieve_multi returns documents of the
\* dominant store only, at most top_k of them, and none of them has a lower
\* fused score than a candidate of that store that survived the card-match
\* filter and the dedup but was left out.
C24_SingleLaneTopK ==
    (spc = "searched" /\ ~laneMixed) =>
        /\ Len(ranked) <= TopK
        /\ \A i \in 1..Len(ranked) : ranked[i].table = DominantTable
        /\ \A ord \in Orders :
             \A c \in Range(DominantSurvivors(ord)) :
                (\A i \in 1..Len(ranked) : ranked[i].db_id # c.db_id)
                    => \A i \in 1..Len(ranked) : ranked[i].score >= c.score

(***************************************************************************)
(* C25 - the card-match filter of _finalize_candidates                     *)
(***************************************************************************)
AnyCardMatch == \E i \in 1..Len(callArgs.candidates) : callArgs.candidates[i].card_match

\* the candidate is a guide document and the context relaxes the filter for those
GuideRelaxed(c) == callArgs.allow /\ _is_guide_table(c.table)

\* C25: if a candidate handed to _finalize_candidates has its card-match flag
\* set, every candidate without the flag is removed, except that with
\* allow_guide_without_card_match guide candidates without the flag are kept;
\* if no candidate has the flag, the step removes nothing (a candidate the step
\* keeps still has its title in the result of the title dedup that follows).
C25_CardMatchFilter ==
    cpc = "done" =>
        /\ AnyCardMatch =>
              \A c \in Range(callArgs.candidates) :
                  (~c.card_match /\ ~GuideRelaxed(c)) => c \notin Range(callResult)
        /\ \A c \in Range(callArgs.candidates) :
              (~AnyCardMatch \/ c.card_match \/ GuideRelaxed(c))
                  => \E j \in 1..Len(callResult) : callResult[j].title = c.title
        /\ Range(callResult) \subseteq Range(callArgs.candidates)

\* a call with a matching candidate under the relaxation: a guide candidate
\* without the flag is returned, a card candidate without the flag is not
C25_Witness ==
    /\ cpc = "done" /\ callArgs.allow /\ AnyCardMatch
    /\ \E c \in Range(callResult) : ~c.card_match /\ c.table = GuideTable
    /\ \E c \in Range(callArgs.candidates) :
          ~c.card_match /\ c.table = CardTable /\ c \notin Range(callResult)

(***************************************************************************)
(* C26 - loss and theft queries use guide documents only                   *)
(***************************************************************************)
LossUsageDone == spc = "done" /\ routing.route = "card_usage" /\ HasLossTerm(query)

\* C26: for a card_usage request whose query holds a loss/theft term,
\* retrieve_docs searches the guide store only and every document of the list
\* it returns, injected pins included, comes from the guide store.
C26_LossGuideDocsOnly ==
    LossUsageDone =>
        /\ retrieve_sources(query, routing) = {GuideTable}
        /\ \A i \in 1..Len(ranked) : ranked[i].table = GuideTable
        /\ \A i \in 1..Len(retrieved) : retrieved[i].table = GuideTable

(***************************************************************************)
(* C27 - the routing decision is read-only for the retrieval engine        *)
(***************************************************************************)
\* C27: retrieve_docs leaves the routing dict of the caller, its filters and
\* its document_sources list as the router produced them; its adjustments are
\* made on copies.
C27_RoutingReadOnly ==
    spc \in {"searched", "done", "raised"} =>
        /\ routing = route_query(query)
        /\ callerSources = router_document_sources(query)

(***************************************************************************)
(* C28 - duplicate concurrent misses                                       *)
(***************************************************************************)
BothMissed == \A t \in Tasks : tasks[t].status = "miss"
BothDone == \A t \in Tasks : tasks[t].pc = "done"
TaskPayload(t) == build_retrieve_cache_entries(tasks[t].docs)

\* a get of the key once both requests are through: one written payload, whole,
\* and the one written last to the backend that answers
GetReturnsLastWrite ==
    LET c == retrieval_cache_get(TaskKey, sharedMem, sharedRedis)
    IN (\E t \in Tasks : tasks[t].sets > 0) =>
          /\ c.hit
          /\ lastWriter[c.backend] \in Tasks
          /\ c.entries = TaskPayload(lastWriter[c.backend])

\* no request waits for the other: every request that is not through can step
NeitherBlocks == \A t \in Tasks : tasks[t].pc # "done" => ENABLED TaskStep(t)

TokenVariants == ExpandAll(_extract_tokens(callArgs.found))
NameScores == [n \in Range(callArgs.synonyms) |-> NameScore(n, TokenVariants)]
BestOverlap ==
    IF Range(callArgs.synonyms) = {} THEN 0
    ELSE CHOOSE b \in {NameScores[n] : n \in Range(callArgs.synonyms)} :
            \A n \in Range(callArgs.synonyms) : NameScores[n] <= b
TiedAtBest == {n \in Range(callArgs.synonyms) : NameScores[n] = BestOverlap}

\* C29 as stated: the result is non-empty exactly when the best overlap score
\* reaches the minimum and fewer names than the tie cap are tied at it.
C29_TiesBelowCap ==
    cpc = "done" =>
        (callResult # <<>> <=>
            BestOverlap >= CARD_TOKEN_MIN_SCORE /\ Cardinality(TiedAtBest) < CARD_TOKEN_MAX_HITS)

\* C29 (amended): the result is non-empty exactly when the best overlap score
\* reaches the minimum and at most CARD_TOKEN_MAX_HITS names are tied at it,
\* and it is then the tied names in catalog order; otherwise it is empty.
C29_TiesWithinCap ==
    cpc = "done" =>
        /\ callResult # <<>> <=>
              BestOverlap >= CARD_TOKEN_MIN_SCORE /\ Cardinality(TiedAtBest) <= CARD_TOKEN_MAX_HITS
        /\ callResult # <<>> =>
              callResult = SelectSeq(callArgs.synonyms, LAMBDA n : n \in TiedAtBest)

\* a tie of exactly the cap is returned, a tie above it is not
C29_Witness ==
    /\ cpc = "done" /\ Len(callResult) = CARD_TOKEN_MAX_HITS
    /\ BestOverlap >= CARD_TOKEN_MIN_SCORE

(***************************************************************************)
(* C30 - post-processing keeps the generated cards                         *)
(***************************************************************************)
\* C30: when the generator or the answer cache yields a non-empty card list,
\* every one of those cards is in currentSituation or nextStep of the
\* response, on every route.
C30_CardsKept ==
    (cpc = "done" /\ callArgs.cards # <<>>) =>
        LET out == callResult.currentSituation \o callResult.nextStep
        IN /\ Len(out) = Len(callArgs.cards)
           /\ \A i \in 1..Len(callArgs.cards) :
                 \E j \in 1..Len(out) : out[j].doc = callArgs.cards[i].doc
                                        /\ out[j].current = callArgs.cards[i].current

(***************************************************************************)
(* C6 - RRF monotonicity                                                   *)
(***************************************************************************)
RankImproved ==
    /\ boost' = boost
    /\ \/ (vecRank' < vecRank /\ vecRank' > 0 /\ kwRank' = kwRank)
       \/ (kwRank' < kwRank /\ kwRank' > 0 /\ vecRank' = vecRank)

\* C6: a step that moves the candidate to a better rank in the vector list or
\* in the keyword list, the other rank and the boost unchanged, never
\* decreases its fused score.
C6_RRFMonotone ==
    [][ RankImproved =>
          FinalScore(vecRank', kwRank', boost') >= FinalScore(vecRank, kwRank, boost) ]_vars

\* a candidate at rank 1 of the vector list and present in the keyword list,
\* carrying the card-guide penalty: ranks were improved up to the top
C6_Witness ==
    /\ vecRank = 1 /\ kwRank = 2 /\ boost = -60
    /\ FinalScore(vecRank, kwRank, boost) > FinalScore(MaxRank, MaxRank, boost)

(***************************************************************************)
(* Claims on the retrieval engine (SpecRetrieve)                           *)
(***************************************************************************)
PinCap == pin_max(query, routing.route, routing.filters.phone_lookup)

\* C3: the ranked list retrieve_docs returns for one query never holds two
\* entries with the same (store, id) pair.
C3_NoDuplicateStoreId ==
    spc = "done" =>
        \A i, j \in 1..Len(retrieved) :
            i < j => <<retrieved[i].table, retrieved[i].id>> # <<retrieved[j].table, retrieved[j].id>>

\* C4: in one retrieve_docs call the documents added by pin injection, over all
\* pin requests of the query, never exceed the per-query pin cap pin_max.
C4_PinCap ==
    spc = "done" =>
        /\ pinnedAdded <= PinCap
        /\ Len(retrieved) - Len(ranked) <= PinCap

\* a call whose pin list names four stored documents, none of them ranked, and
\* which stopped at the cap of two
C4_Witness ==
    /\ spc = "done"
    /\ query = {"narasarang_card", "loss"}
    /\ Len(ranked) = 0
    /\ PinCap = 2
    /\ pinnedAdded = 2
    /\ Len(retrieved) = 2

\* the rows the evaluated pin requests of this call name
PinTargets ==
    LET allowed == _pin_allowed(ranked, critical_pin(query, routing.route,
                                                      routing.filters.phone_lookup))
        reqs == PinRequests(query, routing.route, allowed)
    IN UNION {fetch_docs_by_ids(reqs[k].table, reqs[k].doc_ids) : k \in 1..Len(reqs)}

\* C5: pin injection never creates a second entry for a document already in the
\* ranked list: a pin for a ranked document marks the existing entry as pinned
\* and leaves the length unchanged, and only a document not yet present is
\* appended.
C5_PinMergesOntoRanked ==
    spc = "done" =>
        /\ \A j \in (Len(ranked) + 1)..Len(retrieved) : \A i \in 1..(j - 1) :
               <<retrieved[i].table, retrieved[i].db_id>> # <<retrieved[j].table, retrieved[j].db_id>>
        /\ \A i \in 1..Len(ranked) :
               ranked[i].db_id \in PinTargets => retrieved[i].pinned
        /\ Len(retrieved) = Len(ranked) + pinnedAdded

\* C7: two executions of the search for the same query over unchanged stores,
\* catalog and configuration return the same ordered list of document ids.
C7_SearchDeterministic ==
    (spc = "done" /\ runs = 2) => DocIds(retrieved) = prevIds

(***************************************************************************)
(* C2 - no store call without should_search                                *)
(***************************************************************************)
\* the request is past the search gate of run_rag
PastGate == rq \notin {"off", "idle"}

\* C2: a request whose routing decision has should_search = false returns the
\* clarification response and issues no store call: no retrieve_docs search
\* (vector, keyword, pin fetch) and no consult-case lookup.
C2_NoSearchNoStoreCall ==
    (PastGate /\ ~ragRouting.should_search) =>
        /\ rq = "done"
        /\ response.kind = "clarify" /\ response.ids = <<>>
        /\ searchCalls = 0 /\ consultCalls = 0

\* "그냥": no strong signal, the gating decision itself allows the search
C2_Witness ==
    /\ rq = "done" /\ query = {"just"}
    /\ ~ragRouting.should_search /\ ~gating.no_search
    /\ response.kind = "clarify" /\ searchCalls = 0 /\ consultCalls = 0

(***************************************************************************)
(* C8 - the second of two identical requests is served from the cache      *)
(***************************************************************************)
\* the request repeats the previous one, which retrieved documents, and no
\* cache entry expired in between
RepeatedRequest ==
    /\ reqNo >= 2 /\ rq = "done"
    /\ response.kind = "answer" /\ prev.kind = "answer"
    /\ session = prev.session
    /\ prev.retrieved > 0
    /\ ~cached.stale

\* C8: the second of two identical sequential requests, the first of which
\* retrieved at least one document, reports a cache hit, runs no search and
\* returns the same ordered document-id list as the first.
C8_RepeatServedFromCache ==
    RepeatedRequest =>
        /\ cacheStatus \in CacheHits
        /\ searchCalls = 0
        /\ response.ids = prev.ids

(***************************************************************************)
(* C9 - set followed by get                                                *)
(***************************************************************************)
\* retrieval_cache_get of this request has returned
LookedUp == rq \in {"retrieve", "retry_hybrid", "retry_flip", "store", "finish", "cards",
                    "done"}
               /\ cacheKey # <<>>

\* the previous request wrote its entries under the key this request looks
\* up, and no entry expired since
SetThenGet ==
    /\ reqNo >= 2 /\ LookedUp
    /\ prev.wrote /\ prev.key = cacheKey
    /\ ~cached.stale

\* C9: set(key, v) followed by get(key) before the in-process entry expires
\* returns v with the in-process backend as its origin, and the networked
\* backend is consulted only after an in-process miss.
C9_SetThenGetFromMem ==
    /\ SetThenGet =>
            /\ cached.hit /\ cached.entries = prev.entries
            /\ cached.backend = "mem" /\ cacheStatus = "hit(mem)"
            /\ ~redisConsulted
    /\ (LookedUp /\ redisConsulted) =>
            /\ cached.backend # "mem"
            /\ rq = "retrieve" => \A e \in memCache : e.key # cacheKey

C9_Witness ==
    /\ SetThenGet /\ rq = "done"
    /\ cached.hit /\ cached.backend = "mem" /\ Len(cached.entries) = 2
    /\ cacheStatus = "hit(mem)" /\ ~redisConsulted /\ redisCache # {}

(***************************************************************************)
(* C10 - filter sets are keyed apart                                       *)
(***************************************************************************)
SameButFilters(k1, k2) == k1[1] = k2[1] /\ k1[2] = k2[2] /\ k1[3] = k2[3] /\ k1[5] = k2[5]

\* C10: the key of a request differs from the key of every entry stored for
\* the same text, route, store scope and top_k under another filter set, and
\* a hit never returns an entry stored under another filter set.
C10_FilterSetsKeyedApart ==
    (PastGate /\ cacheKey # <<>>) =>
        /\ \A e \in memCache \cup redisCache :
              (SameButFilters(e.key, cacheKey) /\ e.filters # RequestFilters)
                  => e.key # cacheKey
        /\ cached.hit => cached.filters = RequestFilters

\* the second request arrives with another session: it misses although the
\* entry of the first is still stored, and writes its own entry
C10_Witness ==
    /\ rq = "done" /\ reqNo = 2 /\ query = {"loss"}
    /\ session # prev.session /\ prev.wrote /\ ~cached.stale
    /\ cacheStatus = "miss" /\ ~cached.hit
    /\ SameButFilters(prev.key, cacheKey)
    /\ Cardinality(memCache) = 2

(***************************************************************************)
(* C11 - the answer cache is keyed by the ordered retrieved ids            *)
(***************************************************************************)
\* C11: the cards a request returns were generated from exactly the ordered
\* document-id list the request retrieved: a cached answer is returned only
\* under the same ordered list, any other list or order is a miss followed
\* by a fresh generation.
C11_AnswerForRetrievedIds ==
    (rq = "done" /\ response.kind = "answer" /\ Len(response.ids) > 0) =>
        /\ answerFor = response.ids
        /\ cardStatus \in {"hit(mem)", "miss"}
        /\ \E e \in cardCache :
              e.ids = response.ids
              /\ e.key = RunRagCardCacheKey(query, ragRouting, response.ids)

\* the second request retrieved the documents of the first in another order:
\* the stored answer is passed over and the cards are generated anew
C11_Witness ==
    /\ rq = "done" /\ reqNo = 2 /\ response.kind = "answer"
    /\ Len(response.ids) = 2
    /\ Range(prev.ids) = Range(response.ids) /\ prev.ids # response.ids
    /\ \E e \in cardCache : e.ids = prev.ids /\ e.key[1] = response.route
    /\ cardStatus = "miss" /\ answerFor = response.ids
====
